---- MODULE Spec2Model ----
(***************************************************************************)
(* lumigo_tracer/utils.py: secret redaction (omit_keys), the size-bounded   *)
(* report body (_create_request_body), configuration (config), the timeout *)
(* buffer, frame capture (format_frames), reporting (report_json) and the  *)
(* safe-execute boundary; and the invocation life cycle around them.       *)
(*                                                                         *)
(* Python values are tagged records:                                       *)
(*   [t |-> "none"]                      None                              *)
(*   [t |-> "bool",  b  |-> TRUE]        bool                              *)
(*   [t |-> "int",   n  |-> 5]           int                               *)
(*   [t |-> "str",   s  |-> "ab"]        str   (text is a TLA+ string)     *)
(*   [t |-> "bytes", y  |-> "ab"]        bytes (ASCII content)             *)
(*   [t |-> "list",  xs |-> <<v, ..>>]   list                              *)
(*   [t |-> "dict",  kv |-> <<<<k, v>>, ..>>]  dict, insertion ordered,    *)
(*                                       keys are values, pairwise unequal *)
(*   [t |-> "float", ticks |-> 5000]     float, in ticks of 0.0001 s       *)
(*   [t |-> "raise", e  |-> "TypeError"] an exception leaving the call     *)
(***************************************************************************)
EXTENDS Integers, Sequences, FiniteSets, TLC

VARIABLES
    pc,          \* position of the driver: which call has been made
    env,         \* os.environ, the entries the modelled code reads
    value,       \* omit_keys: the argument `value`
    regexes,     \* omit_keys: the argument `regexes` (<<>> is None or [])
    out,         \* omit_keys(value, regexes)
    out2,        \* omit_keys(out, regexes)
    msgs,        \* _create_request_body: the argument `msgs`
    prune_size_flag,
    max_size,
    too_big_spans_threshold,
    body,        \* what _create_request_body returned, with its locals
    Configuration,   \* the class attributes of utils.Configuration
    args,        \* the arguments of the call of config, get_timeout_buffer,
                 \* format_frames, report_json or lumigo_safe_execute
    ret,         \* what that call returned, or the exception it raised
    log,         \* what the calls logged or printed, in order
    container,   \* the invocation's context: its function span, the reports
                 \* made, the deadline guard and the flush flag
    heap         \* the lists, dicts and tuples alive, by address (used where the
                 \* identity of an object matters; <<>> elsewhere)

call_vars == <<Configuration, args, ret, log, container>>
vars == <<pc, env, value, regexes, out, out2, msgs, prune_size_flag, max_size, heap,
          too_big_spans_threshold, body, Configuration, args, ret, log, container>>

-----------------------------------------------------------------------------
(* Python values *)

PyNone == [t |-> "none"]
PyBool(b) == [t |-> "bool", b |-> b]
PyInt(n) == [t |-> "int", n |-> n]
PyStr(s) == [t |-> "str", s |-> s]
PyBytes(s) == [t |-> "bytes", y |-> s]
PyList(xs) == [t |-> "list", xs |-> xs]
PyDict(kv) == [t |-> "dict", kv |-> kv]
PyFloat(ticks) == [t |-> "float", ticks |-> ticks]
Raise(e) == [t |-> "raise", e |-> e]
IsRaise(v) == v.t = "raise"

\* utils.py constants
EXECUTION_TAGS_KEY == "lumigo_execution_tags_no_scrub"
SKIP_SCRUBBING_KEYS == <<EXECUTION_TAGS_KEY>>
OMITTING_KEYS_REGEXES ==
    << ".*pass.*", ".*key.*", ".*secret.*", ".*credential.*",
       "SessionToken", "x-amz-security-token", "Signature", "Authorization" >>
LUMIGO_SECRET_MASKING_REGEX_BACKWARD_COMP == "LUMIGO_BLACKLIST_REGEX"
LUMIGO_SECRET_MASKING_REGEX == "LUMIGO_SECRET_MASKING_REGEX"
NUMBER_OF_SPANS_IN_REPORT_OPTIMIZATION == 200
TOO_BIG_SPANS_THRESHOLD == 5
MAX_SIZE_FOR_REQUEST == 900000
MASK == "****"

\* the element of a one-element set
Only(S) == CHOOSE x \in S : TRUE

\* dict.get(k, default) and dict[k] = v on the ordered pair list
RECURSIVE kv_has(_, _)
kv_has(kv, k) == kv # <<>> /\ (Head(kv)[1] = k \/ kv_has(Tail(kv), k))

RECURSIVE kv_get(_, _, _)
kv_get(kv, k, default) ==
    IF kv = <<>> THEN default
    ELSE IF Head(kv)[1] = k THEN Head(kv)[2] ELSE kv_get(Tail(kv), k, default)

RECURSIVE kv_set(_, _, _)
kv_set(kv, k, v) ==
    IF kv = <<>> THEN << <<k, v>> >>
    ELSE IF Head(kv)[1] = k THEN << <<k, v>> >> \o Tail(kv)
    ELSE <<Head(kv)>> \o kv_set(Tail(kv), k, v)

-----------------------------------------------------------------------------
(* json.dumps with the default arguments, on ASCII text *)

\* the body of a JSON string literal: quote and backslash are escaped
json_escape_char(c) ==
    IF c = "\"" THEN "\\\"" ELSE IF c = "\\" THEN "\\\\"
    ELSE IF c = "\n" THEN "\\n" ELSE c
\* the characters lo..hi of s (the range is halved to keep the evaluation shallow)
RECURSIVE json_escape_range(_, _, _)
json_escape_range(s, lo, hi) ==
    IF lo > hi THEN ""
    ELSE IF lo = hi THEN json_escape_char(SubSeq(s, lo, lo))
    ELSE json_escape_range(s, lo, (lo + hi) \div 2)
         \o json_escape_range(s, (lo + hi) \div 2 + 1, hi)
json_escape(s) == json_escape_range(s, 1, Len(s))

\* json.dumps turns str, int, bool and None keys into text; any other key is a TypeError
KeyCoercible(k) == k.t \in {"str", "int", "bool", "none"}
KeyText(k) ==
    CASE k.t = "str" -> k.s
      [] k.t = "int" -> ToString(k.n)
      [] k.t = "bool" -> IF k.b THEN "true" ELSE "false"
      [] OTHER -> "null"

RECURSIVE Serializable(_)
Serializable(v) ==
    CASE v.t \in {"none", "bool", "int", "str"} -> TRUE
      [] v.t = "list" -> \A i \in 1..Len(v.xs) : Serializable(v.xs[i])
      [] v.t = "dict" -> \A i \in 1..Len(v.kv) :
                            KeyCoercible(v.kv[i][1]) /\ Serializable(v.kv[i][2])
      [] OTHER -> FALSE

\* the items lo..hi joined by the item separator (the range is halved, so that
\* a long list does not nest the evaluation deeply)
RECURSIVE json_encode(_, _, _)
RECURSIVE json_encode_items(_, _, _, _, _)
RECURSIVE json_encode_pairs(_, _, _, _, _)
json_encode_items(xs, lo, hi, isep, ksep) ==
    IF lo > hi THEN ""
    ELSE IF lo = hi THEN json_encode(xs[lo], isep, ksep)
    ELSE json_encode_items(xs, lo, (lo + hi) \div 2, isep, ksep) \o isep
         \o json_encode_items(xs, (lo + hi) \div 2 + 1, hi, isep, ksep)
json_encode_pairs(kv, lo, hi, isep, ksep) ==
    IF lo > hi THEN ""
    ELSE IF lo = hi
    THEN "\"" \o json_escape(KeyText(kv[lo][1])) \o "\"" \o ksep
         \o json_encode(kv[lo][2], isep, ksep)
    ELSE json_encode_pairs(kv, lo, (lo + hi) \div 2, isep, ksep) \o isep
         \o json_encode_pairs(kv, (lo + hi) \div 2 + 1, hi, isep, ksep)
json_encode(v, isep, ksep) ==
    CASE v.t = "none" -> "null"
      [] v.t = "bool" -> IF v.b THEN "true" ELSE "false"
      [] v.t = "int" -> ToString(v.n)
      [] v.t = "str" -> "\"" \o json_escape(v.s) \o "\""
      [] v.t = "list" -> "[" \o json_encode_items(v.xs, 1, Len(v.xs), isep, ksep) \o "]"
      [] v.t = "dict" -> "{" \o json_encode_pairs(v.kv, 1, Len(v.kv), isep, ksep) \o "}"

\* json.dumps(v): the text, or the TypeError of an unserializable value
json_dumps(v) ==
    IF Serializable(v) THEN PyStr(json_encode(v, ", ", ": ")) ELSE Raise("TypeError")

-----------------------------------------------------------------------------
(* json.loads, a recursive-descent parser over the characters of the text *)

WS == {" ", "\n", "\t"}
Digits == {"0", "1", "2", "3", "4", "5", "6", "7", "8", "9"}
DigitVal(c) ==
    CASE c = "0" -> 0 [] c = "1" -> 1 [] c = "2" -> 2 [] c = "3" -> 3 [] c = "4" -> 4
      [] c = "5" -> 5 [] c = "6" -> 6 [] c = "7" -> 7 [] c = "8" -> 8 [] OTHER -> 9

\* the character at position i, "" past the end
Ch(s, i) == IF i >= 1 /\ i <= Len(s) THEN SubSeq(s, i, i) ELSE ""

\* whether the text lit stands at position i of s
StartsAt(s, i, lit) ==
    i >= 1 /\ i + Len(lit) - 1 <= Len(s) /\ SubSeq(s, i, i + Len(lit) - 1) = lit

RECURSIVE skip_ws(_, _)
skip_ws(s, i) == IF Ch(s, i) \in WS THEN skip_ws(s, i + 1) ELSE i

ParseFail == [ok |-> FALSE]
ParseOk(v, i) == [ok |-> TRUE, v |-> v, i |-> i]

\* i is past the opening quote; acc is the text read so far
RECURSIVE parse_string(_, _, _)
parse_string(s, i, acc) ==
    LET c == Ch(s, i)
    IN  IF c = "" \/ c = "\n" THEN ParseFail
        ELSE IF c = "\"" THEN ParseOk(acc, i + 1)
        ELSE IF c = "\\"
             THEN LET d == Ch(s, i + 1)
                  IN  IF d \in {"\"", "\\", "/"} THEN parse_string(s, i + 2, acc \o d)
                      ELSE IF d = "n" THEN parse_string(s, i + 2, acc \o "\n")
                      ELSE ParseFail
        ELSE parse_string(s, i + 1, acc \o c)

RECURSIVE parse_digits(_, _, _)
parse_digits(s, i, n) ==
    IF Ch(s, i) \in Digits THEN parse_digits(s, i + 1, 10 * n + DigitVal(Ch(s, i)))
    ELSE ParseOk(PyInt(n), i)

\* Each step of the parser hands what it read to the next step as an argument.
RECURSIVE parse_value(_, _)
RECURSIVE parse_members(_, _, _)
RECURSIVE parse_elements(_, _, _)

\* after a member: "}" ends the object, "," starts the next member
members_next(s, e, kv) ==
    IF Ch(s, e) = "}" THEN ParseOk(PyDict(kv), e + 1)
    ELSE IF Ch(s, e) = "," THEN parse_members(s, skip_ws(s, e + 1), kv)
    ELSE ParseFail
\* a repeated key keeps its first place and takes the last value, as dict does
members_value(s, kv, key, v) ==
    IF ~v.ok THEN ParseFail
    ELSE members_next(s, skip_ws(s, v.i), kv_set(kv, PyStr(key), v.v))
members_colon(s, kv, key, j) ==
    IF Ch(s, j) # ":" THEN ParseFail
    ELSE members_value(s, kv, key, parse_value(s, skip_ws(s, j + 1)))
members_key(s, kv, k) ==
    IF ~k.ok THEN ParseFail ELSE members_colon(s, kv, k.v, skip_ws(s, k.i))
\* i is at the first character of a member; kv holds the members read so far
parse_members(s, i, kv) ==
    IF Ch(s, i) # "\"" THEN ParseFail
    ELSE members_key(s, kv, parse_string(s, i + 1, ""))

elements_next(s, e, xs) ==
    IF Ch(s, e) = "]" THEN ParseOk(PyList(xs), e + 1)
    ELSE IF Ch(s, e) = "," THEN parse_elements(s, skip_ws(s, e + 1), xs)
    ELSE ParseFail
elements_value(s, xs, v) ==
    IF ~v.ok THEN ParseFail ELSE elements_next(s, skip_ws(s, v.i), Append(xs, v.v))
parse_elements(s, i, xs) == elements_value(s, xs, parse_value(s, i))

object_open(s, j) ==
    IF Ch(s, j) = "}" THEN ParseOk(PyDict(<<>>), j + 1) ELSE parse_members(s, j, <<>>)
array_open(s, j) ==
    IF Ch(s, j) = "]" THEN ParseOk(PyList(<<>>), j + 1) ELSE parse_elements(s, j, <<>>)
string_value(r) == IF r.ok THEN ParseOk(PyStr(r.v), r.i) ELSE ParseFail
value_at(s, i, c) ==
    IF c = "{" THEN object_open(s, skip_ws(s, i + 1))
    ELSE IF c = "[" THEN array_open(s, skip_ws(s, i + 1))
    ELSE IF c = "\"" THEN string_value(parse_string(s, i + 1, ""))
    ELSE IF c = "0" THEN ParseOk(PyInt(0), i + 1)
    ELSE IF c \in Digits THEN parse_digits(s, i, 0)
    ELSE IF StartsAt(s, i, "true") THEN ParseOk(PyBool(TRUE), i + 4)
    ELSE IF StartsAt(s, i, "false") THEN ParseOk(PyBool(FALSE), i + 5)
    ELSE IF StartsAt(s, i, "null") THEN ParseOk(PyNone, i + 4)
    ELSE ParseFail
parse_value(s, i) == value_at(s, i, Ch(s, i))

\* json.loads(s): the value, or JSONDecodeError (malformed text, trailing data)
loads_end(s, r) ==
    IF r.ok THEN (IF skip_ws(s, r.i) = Len(s) + 1 THEN r.v ELSE Raise("JSONDecodeError"))
    ELSE Raise("JSONDecodeError")
json_loads(s) == loads_end(s, parse_value(s, skip_ws(s, 1)))

-----------------------------------------------------------------------------
(* re.compile(pattern, re.IGNORECASE) and Pattern.match, for the patterns   *)
(* ".*LIT.*" (LIT anywhere in the key) and "LIT" (LIT at the start of the   *)
(* key), LIT free of metacharacters; any other pattern is a re.error, which *)
(* is what re.compile does with "(".                                        *)

UPPER == "ABCDEFGHIJKLMNOPQRSTUVWXYZ"
LOWER == "abcdefghijklmnopqrstuvwxyz"
UpperSet == {Ch(UPPER, i) : i \in 1..26}
LowerCh(c) ==
    IF c \in UpperSet THEN Ch(LOWER, CHOOSE i \in 1..26 : Ch(UPPER, i) = c) ELSE c
RECURSIVE Lower(_)
Lower(s) == IF s = "" THEN "" ELSE LowerCh(Head(s)) \o Lower(Tail(s))

Meta == {".", "*", "(", ")", "[", "]", "+", "?", "\\", "^", "$", "|", "{", "}"}
Literal(s) == \A i \in 1..Len(s) : Ch(s, i) \notin Meta
Contains(s, lit) == \E i \in 1..(Len(s) + 1) : StartsAt(s, i, lit) \/ lit = ""

\* p from position i on is made of literal characters, "\." and ".*"
RECURSIVE SimplePattern(_, _)
SimplePattern(p, i) ==
    IF i > Len(p) THEN TRUE
    ELSE IF StartsAt(p, i, ".*") \/ StartsAt(p, i, "\\.") THEN SimplePattern(p, i + 2)
    ELSE Ch(p, i) \notin Meta /\ SimplePattern(p, i + 1)

\* such a pattern, from position i on, matches s from position j on
RECURSIVE pattern_match(_, _, _, _)
pattern_match(p, i, s, j) ==
    IF i > Len(p) THEN TRUE
    ELSE IF StartsAt(p, i, ".*") THEN \E k \in j..(Len(s) + 1) : pattern_match(p, i + 2, s, k)
    ELSE IF StartsAt(p, i, "\\.") THEN Ch(s, j) = "." /\ pattern_match(p, i + 2, s, j + 1)
    ELSE Ch(s, j) = Ch(p, i) /\ pattern_match(p, i + 1, s, j + 1)

re_compile(p) ==
    IF p.t # "str" THEN Raise("TypeError")
    ELSE IF Literal(p.s) THEN [t |-> "re", kind |-> "prefix", lit |-> Lower(p.s)]
    ELSE IF Len(p.s) >= 4 /\ StartsAt(p.s, 1, ".*") /\ StartsAt(p.s, Len(p.s) - 1, ".*")
            /\ Literal(SubSeq(p.s, 3, Len(p.s) - 2))
    THEN [t |-> "re", kind |-> "contains", lit |-> Lower(SubSeq(p.s, 3, Len(p.s) - 2))]
    ELSE IF SimplePattern(p.s, 1) THEN [t |-> "re", kind |-> "sequence", lit |-> Lower(p.s)]
    ELSE Raise("re.error")

\* r.match(k) for a str k, given k in lower case
lower_match(r, lk) ==
    IF r.kind = "prefix" THEN StartsAt(lk, 1, r.lit) \/ r.lit = ""
    ELSE IF r.kind = "contains" THEN Contains(lk, r.lit)
    ELSE pattern_match(r.lit, 1, lk, 1)
re_match(r, k) == lower_match(r, Lower(k))

\* iterating a value: the elements of a list, the keys of a dict, the characters of a str
RECURSIVE Chars(_)
Chars(s) == IF s = "" THEN <<>> ELSE <<PyStr(Head(s))>> \o Chars(Tail(s))
PairKey(p) == p[1]
Iterate(v) ==
    CASE v.t = "list" -> v
      [] v.t = "dict" -> PyList([i \in 1..Len(v.kv) |-> PairKey(v.kv[i])])
      [] v.t = "str" -> PyList(Chars(v.s))
      [] OTHER -> Raise("TypeError")

\* os.environ: pairs <<name, text>>
InEnv(e, name) == kv_has(e, name)

\* line 331: the first exception of the comprehension, or the compiled list
first_raise(compiled, bad) ==
    IF bad # {} THEN compiled[CHOOSE i \in bad : \A j \in bad : i <= j]
    ELSE PyList(compiled)
compile_list(compiled) ==
    first_raise(compiled, {i \in 1..Len(compiled) : IsRaise(compiled[i])})
compile_all(items) == IF IsRaise(items) THEN items ELSE 
    compile_list([i \in 1..Len(items.xs) |-> re_compile(items.xs[i])])
iterate_given(given) == IF IsRaise(given) THEN given ELSE compile_all(Iterate(given))

\* lines 325-330
given_regexes(e) ==
    IF InEnv(e, LUMIGO_SECRET_MASKING_REGEX)
    THEN json_loads(kv_get(e, LUMIGO_SECRET_MASKING_REGEX, ""))
    ELSE IF InEnv(e, LUMIGO_SECRET_MASKING_REGEX_BACKWARD_COMP)
    THEN json_loads(kv_get(e, LUMIGO_SECRET_MASKING_REGEX_BACKWARD_COMP, ""))
    ELSE PyList([i \in 1..Len(OMITTING_KEYS_REGEXES) |-> PyStr(OMITTING_KEYS_REGEXES[i])])

\* get_omitting_regexes(): the compiled list, or the exception of json.loads,
\* of the iteration or of re.compile
get_omitting_regexes(e) == iterate_given(given_regexes(e))

-----------------------------------------------------------------------------
(* omit_keys(value, regexes) *)

\* line 358: k in SKIP_SCRUBBING_KEYS
\* variant of skip_key with an empty skip-list
skip_nothing(k) == FALSE
skip_key(k) == \E i \in 1..Len(SKIP_SCRUBBING_KEYS) : k = PyStr(SKIP_SCRUBBING_KEYS[i])

\* line 360: isinstance(k, str) and any(r.match(k) for r in regexes)
any_match(rx, lk) == \E i \in 1..Len(rx) : lower_match(rx[i], lk)
key_matches(k, rx) == k.t = "str" /\ any_match(rx, Lower(k.s))

\* line 348: the text of a str or bytes value starts with "{"
TextOf(v) == IF v.t = "str" THEN v.s ELSE v.y
json_probe(v) == StartsAt(TextOf(v), 1, "{")

RECURSIVE omit_keys(_, _, _)
RECURSIVE omit_items(_, _, _, _)

\* variant of omit_list that leaves None items out of the list built
NotNone(v) == v # PyNone
omit_list_filtered(xs, rx, e) ==
    PyList(SelectSeq([i \in 1..Len(xs) |-> omit_keys(xs[i], rx, e)], NotNone))

\* line 344: [omit_keys(item, regexes) for item in value]; the first exception
\* of an item leaves the comprehension
list_result(rs, bad) ==
    IF bad # {} THEN rs[CHOOSE i \in bad : \A j \in bad : i <= j] ELSE PyList(rs)
list_built(rs) == list_result(rs, {i \in 1..Len(rs) : IsRaise(rs[i])})
omit_list(xs, rx, e) == list_built([i \in 1..Len(xs) |-> omit_keys(xs[i], rx, e)])

\* variant of omit_item that leaves a matching key out of items
omit_item_dropping(kv, items, k, v, rx, e) ==
    IF skip_key(k) THEN omit_items(Tail(kv), kv_set(items, k, v), rx, e)
    ELSE IF key_matches(k, rx) THEN omit_items(Tail(kv), items, rx, e)
    ELSE omit_items(Tail(kv), kv_set(items, k, omit_keys(v, rx, e)), rx, e)

\* variant of omit_item that redacts the value of a skip-list key as well
omit_item_scrubbing_tags(kv, items, k, v, rx, e) ==
    IF key_matches(k, rx)
    THEN omit_items(Tail(kv), kv_set(items, k, PyStr(MASK)), rx, e)
    ELSE IF IsRaise(omit_keys(v, rx, e)) THEN omit_keys(v, rx, e)
    ELSE omit_items(Tail(kv), kv_set(items, k, omit_keys(v, rx, e)), rx, e)

\* lines 356-364: the loop over value.items(), items being the dict built so far
item_recursed(kv, items, k, r, rx, e) ==
    IF IsRaise(r) THEN r ELSE omit_items(Tail(kv), kv_set(items, k, r), rx, e)
omit_item(kv, items, k, v, rx, e) ==
    IF skip_key(k) THEN omit_items(Tail(kv), kv_set(items, k, v), rx, e)
    ELSE IF key_matches(k, rx)
    THEN omit_items(Tail(kv), kv_set(items, k, PyStr(MASK)), rx, e)
    ELSE item_recursed(kv, items, k, omit_keys(v, rx, e), rx, e)
omit_items(kv, items, rx, e) ==
    IF kv = <<>> THEN PyDict(items)
    ELSE omit_item(kv, items, Head(kv)[1], Head(kv)[2], rx, e)

\* variant of text_parsed that re-serializes bytes without redacting them
text_parsed_bytes_plain(v, parsed_value, rx, e) ==
    IF IsRaise(parsed_value) THEN v
    ELSE IF parsed_value.t # "dict" THEN v
    ELSE IF v.t = "bytes" THEN json_dumps(parsed_value)
    ELSE json_dumps(omit_keys(parsed_value, rx, e))

\* lines 345-354: a str or bytes value; every exception inside is swallowed
text_dumped(v, d) == IF IsRaise(d) THEN v ELSE d
text_redacted(v, r) == IF IsRaise(r) THEN v ELSE text_dumped(v, json_dumps(r))
text_parsed(v, parsed_value, rx, e) ==
    IF IsRaise(parsed_value) THEN v
    ELSE IF parsed_value.t = "dict" THEN text_redacted(v, omit_keys(parsed_value, rx, e))
    ELSE v
omit_text(v, rx, e) ==
    IF json_probe(v) THEN text_parsed(v, json_loads(TextOf(v)), rx, e) ELSE v

\* lines 343-365, with the regexes of lines 341-342
omit_value(v, got, e) ==
    IF IsRaise(got) THEN got
    ELSE CASE v.t = "list" -> omit_list(v.xs, got.xs, e)
           [] v.t \in {"str", "bytes"} -> omit_text(v, got.xs, e)
           [] v.t = "dict" -> omit_items(v.kv, <<>>, got.xs, e)
           [] OTHER -> v

\* regexes = <<>> stands for None and for [], which `not regexes` does not tell apart
omit_keys(v, rx_arg, e) ==
    omit_value(v, IF rx_arg = <<>> THEN get_omitting_regexes(e) ELSE PyList(rx_arg), e)

-----------------------------------------------------------------------------
(* _create_request_body(msgs, prune_size_flag, max_size, too_big_spans_threshold) *)
(* msgs is a sequence of spans, each a JSON-serializable dict.                    *)

\* d.get(key, default) with a str key
dict_get(d, key, default) == kv_get(d.kv, PyStr(key), default)

_is_span_has_error(span) ==
    \/ dict_get(span, "error", PyNone) # PyNone
    \/ dict_get(dict_get(dict_get(dict_get(span, "info", PyDict(<<>>)),
                                  "httpInfo", PyDict(<<>>)),
                         "response", PyDict(<<>>)),
                "statusCode", PyInt(0)).n > 400
    \/ dict_get(dict_get(span, "returnValue", PyDict(<<>>)), "statusCode", PyInt(0)).n > 400

\* len(b64encode(data)) for data of n bytes
b64_len(n) == 4 * ((n + 2) \div 3)

_get_event_base64_size(event) == b64_len(Len(json_dumps(event).s))

\* variant of send_whole without the test of the flag
send_whole_sized(m, prune, max) ==
    /\ Len(m) < NUMBER_OF_SPANS_IN_REPORT_OPTIMIZATION
    /\ _get_event_base64_size(PyList(m)) < max

\* lines 151-154: the whole list is sent as it is
send_whole(m, prune, max) ==
    \/ ~prune
    \/ /\ Len(m) < NUMBER_OF_SPANS_IN_REPORT_OPTIMIZATION
       /\ _get_event_base64_size(PyList(m)) < max

\* variant of ordered_spans without the sort
unsorted_spans(m) == SubSeq(m, 1, Len(m) - 1)

\* variant of ordered_spans whose sort turns round the spans with an error
turned_round(spans) == [i \in 1..Len(spans) |-> spans[Len(spans) - i + 1]]
ordered_spans_unstable(m) ==
    turned_round(SelectSeq(SubSeq(m, 1, Len(m) - 1), _is_span_has_error))
    \o SelectSeq(SubSeq(m, 1, Len(m) - 1), LAMBDA span : ~_is_span_has_error(span))

\* line 158: sorted(msgs[:-1], key=_is_span_has_error, reverse=True); the sort is
\* stable and the key has two values, so the spans with an error come first and
\* each group keeps its input order
has_no_error(span) == ~_is_span_has_error(span)
but_last(m) == SubSeq(m, 1, Len(m) - 1)
ordered_spans(m) ==
    SelectSeq(but_last(m), _is_span_has_error) \o SelectSeq(but_last(m), has_no_error)

\* variant of fits that lets the budget be met exactly
fits_or_fills(current_size, span_size, max) == current_size + span_size <= max

\* line 165
fits(current_size, span_size, max) == current_size + span_size < max

\* line 171
reached_threshold(too_big_spans, threshold) == too_big_spans = threshold

\* variant of loop_body that does not add the size of the span appended
loop_body_unsummed(span_size, span, l, max, threshold) ==
    IF fits(l.current_size, span_size, max)
    THEN [l EXCEPT !.spans_to_send = Append(@, span), !.scanned = @ + 1]
    ELSE [l EXCEPT !.too_big_spans = @ + 1, !.scanned = @ + 1,
                   !.done = reached_threshold(l.too_big_spans + 1, threshold)]

\* lines 164-172: one pass of the loop body for span, from the locals l; done
\* is set by the break
loop_body(span_size, span, l, max, threshold) ==
    IF fits(l.current_size, span_size, max)
    THEN [l EXCEPT !.spans_to_send = Append(@, span), !.current_size = @ + span_size,
                   !.scanned = @ + 1]
    ELSE [l EXCEPT !.too_big_spans = @ + 1, !.scanned = @ + 1,
                   !.done = reached_threshold(l.too_big_spans + 1, threshold)]

\* variant of loop_step that measures the span inside a list
loop_step_listed(span, l, max, threshold) ==
    IF l.done THEN l
    ELSE loop_body(_get_event_base64_size(PyList(<<span>>)), span, l, max, threshold)

\* line 164: span_size = _get_event_base64_size(span)
loop_step(span, l, max, threshold) ==
    IF l.done THEN l ELSE loop_body(_get_event_base64_size(span), span, l, max, threshold)

\* line 163: for span in ordered_spans, over the spans lo..hi (the range is
\* halved and the locals after the first half are computed before the second
\* half starts, so that a long list does not nest the evaluation deeply)
RECURSIVE prune_loop(_, _, _, _, _, _)
prune_loop(spans, lo, hi, l, max, threshold) ==
    IF lo > hi THEN l
    ELSE IF lo = hi THEN loop_step(spans[lo], l, max, threshold)
    ELSE Only({prune_loop(spans, (lo + hi) \div 2 + 1, hi, half, max, threshold) :
                   half \in {prune_loop(spans, lo, (lo + hi) \div 2, l, max, threshold)}})

\* lines 160-162: the locals before the loop
loop_init(end) ==
    [spans_to_send |-> <<end>>, current_size |-> _get_event_base64_size(end),
     too_big_spans |-> 0, scanned |-> 0, done |-> FALSE]
run_loop(spans, l, max, threshold) == prune_loop(spans, 1, Len(spans), l, max, threshold)

\* variant of end_span taking msgs[0]
first_span(m) == m[1]

\* line 157: msgs[-1], the first element of spans_to_send
end_span(m) == m[Len(m)]

\* the redacted serialization returned at lines 155 and 173
dump_redacted(r) == IF IsRaise(r) THEN r ELSE json_dumps(r)
redacted_dump(spans, e) == dump_redacted(omit_keys(PyList(spans), <<>>, e))

\* lines 157-173
pruned_result(l, e) ==
    [path |-> "pruned", ret |-> redacted_dump(l.spans_to_send, e),
     sent |-> l.spans_to_send, current_size |-> l.current_size,
     too_big_spans |-> l.too_big_spans, scanned |-> l.scanned]

\* The call: ret is the str returned or the exception raised; path tells the
\* branch; sent, current_size, too_big_spans and scanned are the locals at the
\* return (sent is msgs itself on the whole-list branch).
_create_request_body(m, prune, max, threshold, e) ==
    IF send_whole(m, prune, max)
    THEN [path |-> "whole", ret |-> redacted_dump(m, e), sent |-> m,
          current_size |-> 0, too_big_spans |-> 0, scanned |-> 0]
    ELSE IF m = <<>>
    THEN [path |-> "pruned", ret |-> Raise("IndexError"), sent |-> <<>>,
          current_size |-> 0, too_big_spans |-> 0, scanned |-> 0]
    ELSE pruned_result(run_loop(ordered_spans(m), loop_init(end_span(m)), max, threshold), e)

-----------------------------------------------------------------------------
(* The inputs of the calls *)

MaxDepth == 2        \* wrappers around a core value of omit_keys
MaxSpans == 3        \* HTTP spans before the function span of a short msgs

StrPair(k, v) == <<PyStr(k), v>>
Secret == PyDict(<<StrPair("apiKey", PyStr("s3"))>>)

\* values at nesting depth 0
Cores ==
    { PyNone, PyInt(1), PyStr("x"), PyBytes("x"), PyDict(<<>>), Secret,
      PyDict(<<StrPair("b", PyInt(2)), StrPair("Password", PyBool(TRUE))>>),
      PyDict(<< <<PyInt(7), Secret>> >>),
      PyStr("{\"apiKey\": 1"),
      PyStr("{\"b\":1,\"c\":3,\"b\":{\"SessionTokenId\":2}}\n"),
      PyStr(" {\"apiKey\": 1}") }

\* one more level of nesting around v: a list, a mapping (plain key, masked key,
\* skip-list key with a sibling), JSON text without spaces, JSON bytes
Wrap(v) ==
    { PyList(<<PyInt(0), v>>),
      PyDict(<<StrPair("b", v)>>),
      PyDict(<<StrPair("Password", v)>>),
      PyDict(<<StrPair(EXECUTION_TAGS_KEY, v), StrPair("apiKey", PyStr("s3"))>>) }
    \cup (IF Serializable(v)
          THEN {PyStr(json_encode(v, ",", ":")), PyBytes(json_dumps(v).s)}
          ELSE {})

RECURSIVE Values(_)
Values(d) ==
    IF d = 0 THEN Cores
    ELSE LET inner == Values(d - 1) IN inner \cup UNION {Wrap(v) : v \in inner}

\* the `regexes` argument: absent, or one compiled pattern
RegexArgs == {<<>>, <<re_compile(PyStr("a"))>>}

\* os.environ: no override, a well-formed one under either name, malformed ones
NoOverride == <<>>
GoodOverrides ==
    { << <<LUMIGO_SECRET_MASKING_REGEX, "[\".*b.*\", \"x-api\"]">> >>,
      << <<LUMIGO_SECRET_MASKING_REGEX_BACKWARD_COMP, "[]">> >> }
BadOverrides ==
    { << <<LUMIGO_SECRET_MASKING_REGEX, "[\".*b.*\"">> >>,
      << <<LUMIGO_SECRET_MASKING_REGEX, "5">> >>,
      << <<LUMIGO_SECRET_MASKING_REGEX_BACKWARD_COMP, "[\"(\"]">> >>,
      << <<LUMIGO_SECRET_MASKING_REGEX_BACKWARD_COMP, "[1]">> >> }

\* spans as the tracer records them
HttpSpan(id, code) ==
    PyDict(<<StrPair("id", PyStr(id)),
             StrPair("info", PyDict(<<StrPair("httpInfo",
                 PyDict(<<StrPair("response",
                     PyDict(<<StrPair("statusCode", PyInt(code))>>))>>))>>))>>)
HttpOk == HttpSpan("h1", 200)
HttpErr == HttpSpan("h2", 500)
HttpExc == PyDict(<<StrPair("id", PyStr("h3")), StrPair("error", PyStr("URLError"))>>)
HttpAuth == PyDict(<<StrPair("id", PyStr("h4")), StrPair("Authorization", PyStr(""))>>)
HttpTiny == PyDict(<<StrPair("id", PyStr("h"))>>)
FunctionSpan ==
    PyDict(<<StrPair("id", PyStr("f1")), StrPair("type", PyStr("function")),
             StrPair("event", PyStr("{\"key\":\"24\",\"n\":1}"))>>)
HttpPool == {HttpOk, HttpErr, HttpExc, HttpAuth}

Repeat(x, n) == [i \in 1..n |-> x]

ShortMsgs ==
    {<<>>} \cup
    UNION {{Append(h, FunctionSpan) : h \in [1..n -> HttpPool]} : n \in 0..MaxSpans}
\* at and just under the count of NUMBER_OF_SPANS_IN_REPORT_OPTIMIZATION
LongMsgs ==
    { Repeat(HttpTiny, NUMBER_OF_SPANS_IN_REPORT_OPTIMIZATION - 2) \o <<HttpErr, FunctionSpan>>,
      Repeat(HttpTiny, NUMBER_OF_SPANS_IN_REPORT_OPTIMIZATION - 3) \o <<HttpErr, FunctionSpan>> }

RECURSIVE SumSizes(_)
SumSizes(m) == IF m = <<>> THEN 0 ELSE _get_event_base64_size(Head(m)) + SumSizes(Tail(m))

\* budgets around the sizes that decide the branches for m
MaxSizes(m) ==
    {0, MAX_SIZE_FOR_REQUEST, _get_event_base64_size(PyList(m)),
     _get_event_base64_size(PyList(m)) + 1, SumSizes(m), SumSizes(m) + 1}
    \cup (IF m = <<>> THEN {}
          ELSE {_get_event_base64_size(end_span(m)) - 1,
                _get_event_base64_size(end_span(m)) + 1,
                2 * _get_event_base64_size(end_span(m)) + 1})
Thresholds == {0, 1, 2, TOO_BIG_SPANS_THRESHOLD}

NotCalled == [t |-> "notcalled"]
NoBody == [path |-> "none"]
NoArgs == [f |-> "none"]

\* lines 54-64: the attributes of the class Configuration as the module sets them
DefaultConfiguration ==
    [should_report |-> PyBool(TRUE), host |-> "", token |-> "", verbose |-> TRUE,
     enhanced_print |-> FALSE, is_step_function |-> FALSE, timeout_timer |-> TRUE,
     timeout_timer_buffer |-> PyNone, send_only_if_error |-> FALSE,
     domains_scrubber |-> PyNone]

\* none of config, get_timeout_buffer, format_frames, report_json or
\* lumigo_safe_execute is called
\* the context before the first reset()
NoContainer ==
    [t |-> "container", state |-> "NEW", function_span |-> PyNone, http_spans |-> <<>>,
     tags |-> <<>>, reports |-> <<>>, guard |-> "idle", flushed |-> FALSE]
NoCall ==
    /\ container = NoContainer /\ heap = <<>>
    /\ Configuration = DefaultConfiguration /\ args = NoArgs
    /\ ret = NotCalled /\ log = <<>>

-----------------------------------------------------------------------------
(* Redaction: omit_keys is called on a value, and again on what it returned *)

InitRedact ==
    /\ pc = "redact"
    /\ \/ env = NoOverride /\ value \in Values(MaxDepth)
       \/ env \in GoodOverrides \cup BadOverrides /\ value \in Values(MaxDepth - 1)
    /\ regexes \in RegexArgs
    /\ out = NotCalled /\ out2 = NotCalled
    /\ msgs = <<>> /\ prune_size_flag = FALSE /\ max_size = 0
    /\ too_big_spans_threshold = 0 /\ body = NoBody
    /\ container = NoContainer /\ heap = <<>>
    /\ NoCall

OmitKeys ==
    /\ pc = "redact"
    /\ out' = omit_keys(value, regexes, env)
    /\ pc' = "redacted"
    /\ UNCHANGED <<env, value, regexes, out2, msgs, prune_size_flag, max_size, heap,
                   too_big_spans_threshold, body>>
    /\ UNCHANGED call_vars

OmitKeysAgain ==
    /\ pc = "redacted"
    /\ ~IsRaise(out)
    /\ out2' = omit_keys(out, regexes, env)
    /\ pc' = "redacted2"
    /\ UNCHANGED <<env, value, regexes, out, msgs, prune_size_flag, max_size, heap,
                   too_big_spans_threshold, body>>
    /\ UNCHANGED call_vars

NextRedact == OmitKeys \/ OmitKeysAgain
SpecRedact == InitRedact /\ [][NextRedact]_vars

-----------------------------------------------------------------------------
(* Report body: _create_request_body is called on the spans of an invocation *)

InitBody ==
    /\ pc = "build"
    /\ \/ /\ env = NoOverride
          /\ msgs \in ShortMsgs
          /\ \/ prune_size_flag = TRUE /\ too_big_spans_threshold \in Thresholds
             \/ prune_size_flag = FALSE /\ too_big_spans_threshold = TOO_BIG_SPANS_THRESHOLD
          /\ max_size \in MaxSizes(msgs)
       \/ /\ env = NoOverride
          /\ msgs \in LongMsgs
          /\ prune_size_flag = TRUE
          /\ too_big_spans_threshold = TOO_BIG_SPANS_THRESHOLD
          /\ max_size \in {MAX_SIZE_FOR_REQUEST, _get_event_base64_size(PyList(msgs)),
                           _get_event_base64_size(PyList(msgs)) + 1}
       \/ /\ env \in GoodOverrides \cup BadOverrides
          /\ msgs = <<HttpAuth, FunctionSpan>>
          /\ prune_size_flag \in BOOLEAN
          /\ too_big_spans_threshold = TOO_BIG_SPANS_THRESHOLD
          /\ max_size \in {0, MAX_SIZE_FOR_REQUEST}
    /\ body = NoBody
    /\ value = PyNone /\ regexes = <<>> /\ out = NotCalled /\ out2 = NotCalled
    /\ NoCall

CreateRequestBody ==
    /\ pc = "build"
    /\ body' = _create_request_body(msgs, prune_size_flag, max_size,
                                    too_big_spans_threshold, env)
    /\ pc' = "built"
    /\ UNCHANGED <<env, value, regexes, out, out2, msgs, prune_size_flag, max_size, heap,
                   too_big_spans_threshold>>
    /\ UNCHANGED call_vars

NextBody == CreateRequestBody
SpecBody == InitBody /\ [][NextBody]_vars

-----------------------------------------------------------------------------
(* omit_keys and _create_request_body over objects with identity            *)
(* heap[a] is the object at address a: a dict [t, kv], a list [t, xs] or a  *)
(* tuple [t, xs]; a slot of an object, an argument or a result is an        *)
(* immutable value (None, bool, int, str, bytes) or a reference Ref(a).     *)

Ref(a) == [t |-> "ref", a |-> a]
IsRef(s) == s.t = "ref"
PyTuple(xs) == [t |-> "tuple", xs |-> xs]
\* what a call leaves: the value returned or the exception raised, and the heap
Result(r, h) == [ret |-> r, heap |-> h]
\* a new object
alloc(h, cell) == Result(Ref(Len(h) + 1), Append(h, cell))

\* the value that the slot s stands for in the heap h
RECURSIVE deref(_, _)
deref(s, h) ==
    IF ~IsRef(s) THEN s
    ELSE IF h[s.a].t = "dict"
    THEN PyDict([i \in 1..Len(h[s.a].kv) |->
                    <<h[s.a].kv[i][1], deref(h[s.a].kv[i][2], h)>>])
    ELSE [t |-> h[s.a].t, xs |-> [i \in 1..Len(h[s.a].xs) |-> deref(h[s.a].xs[i], h)]]

\* the objects of the value v laid out in the heap h, each one once
RECURSIVE store(_, _)
RECURSIVE store_all(_, _, _)
store_all(vs, slots, h) ==
    IF vs = <<>> THEN Result(slots, h)
    ELSE store_all(Tail(vs), Append(slots, store(Head(vs), h).ret), store(Head(vs), h).heap)
store(v, h) ==
    IF v.t \in {"list", "tuple"}
    THEN alloc(store_all(v.xs, <<>>, h).heap,
               [t |-> v.t, xs |-> store_all(v.xs, <<>>, h).ret])
    ELSE IF v.t = "dict"
    THEN alloc(store_all([i \in 1..Len(v.kv) |-> v.kv[i][2]], <<>>, h).heap,
               PyDict([i \in 1..Len(v.kv) |->
                          <<v.kv[i][1],
                            store_all([j \in 1..Len(v.kv) |-> v.kv[j][2]], <<>>, h).ret[i]>>]))
    ELSE Result(v, h)

\* items[k] = x, items being the dict at the address a
setitem(h, a, k, x) == [h EXCEPT ![a] = PyDict(kv_set(h[a].kv, k, x))]

RECURSIVE omit_keys_at(_, _, _, _)
RECURSIVE omit_list_at(_, _, _, _, _)
RECURSIVE omit_items_at(_, _, _, _, _, _)

\* line 344: [omit_keys(item, regexes) for item in value], done being the list
\* built so far; the first exception of an item leaves the comprehension
list_item_at(xs, done, r, rx, e) ==
    IF IsRaise(r.ret) THEN r
    ELSE omit_list_at(Tail(xs), Append(done, r.ret), rx, e, r.heap)
omit_list_at(xs, done, rx, e, h) ==
    IF xs = <<>> THEN alloc(h, PyList(done))
    ELSE list_item_at(xs, done, omit_keys_at(Head(xs), rx, e, h), rx, e)

\* variant of omit_item_at that masks the value in the argument as well
omit_item_at_in_place(a, i, items, k, v, rx, e, h) ==
    IF skip_key(k) THEN omit_items_at(a, i + 1, items, rx, e, setitem(h, items, k, v))
    ELSE IF key_matches(k, rx)
    THEN omit_items_at(a, i + 1, items, rx, e,
                       setitem(setitem(h, items, k, PyStr(MASK)), a, k, PyStr(MASK)))
    ELSE IF IsRaise(omit_keys_at(v, rx, e, h).ret) THEN omit_keys_at(v, rx, e, h)
    ELSE omit_items_at(a, i + 1, items, rx, e,
                       setitem(omit_keys_at(v, rx, e, h).heap, items, k,
                               omit_keys_at(v, rx, e, h).ret))

\* lines 355-364: items = {} is the dict at the address items, and the loop is
\* at the i-th item of value, the dict at the address a
item_recursed_at(a, i, items, k, r, rx, e) ==
    IF IsRaise(r.ret) THEN r
    ELSE omit_items_at(a, i + 1, items, rx, e, setitem(r.heap, items, k, r.ret))
omit_item_at(a, i, items, k, v, rx, e, h) ==
    IF skip_key(k) THEN omit_items_at(a, i + 1, items, rx, e, setitem(h, items, k, v))
    ELSE IF key_matches(k, rx)
    THEN omit_items_at(a, i + 1, items, rx, e, setitem(h, items, k, PyStr(MASK)))
    ELSE item_recursed_at(a, i, items, k, omit_keys_at(v, rx, e, h), rx, e)
omit_items_at(a, i, items, rx, e, h) ==
    IF i > Len(h[a].kv) THEN Result(Ref(items), h)
    ELSE omit_item_at(a, i, items, h[a].kv[i][1], h[a].kv[i][2], rx, e, h)
omit_dict_at(a, rx, e, h) ==
    omit_items_at(a, 1, Len(h) + 1, rx, e, Append(h, PyDict(<<>>)))

\* lines 343-365 for the slot s; str and bytes are immutable, and so is what
\* lines 345-353 return for them
omit_value_at(s, got, e, h) ==
    IF IsRaise(got) THEN Result(got, h)
    ELSE IF IsRef(s)
    THEN CASE h[s.a].t = "list" -> omit_list_at(h[s.a].xs, <<>>, got.xs, e, h)
           [] h[s.a].t = "dict" -> omit_dict_at(s.a, got.xs, e, h)
           [] OTHER -> Result(s, h)
    ELSE IF s.t \in {"str", "bytes"} THEN Result(omit_text(s, got.xs, e), h)
    ELSE Result(s, h)
omit_keys_at(s, rx_arg, e, h) ==
    omit_value_at(s, IF rx_arg = <<>> THEN get_omitting_regexes(e) ELSE PyList(rx_arg), e, h)

\* line 158 over the spans of the list at msgs: sorted() builds a new list
ordered_spans_at(spans, h) ==
    SelectSeq(but_last(spans), LAMBDA s : _is_span_has_error(deref(s, h)))
    \o SelectSeq(but_last(spans), LAMBDA s : ~_is_span_has_error(deref(s, h)))
\* lines 160-172, spans_to_send holding the spans themselves
loop_init_at(end, h) ==
    [spans_to_send |-> <<end>>, current_size |-> _get_event_base64_size(deref(end, h)),
     too_big_spans |-> 0, scanned |-> 0, done |-> FALSE]
loop_step_at(s, l, h, max, threshold) ==
    IF l.done THEN l
    ELSE loop_body(_get_event_base64_size(deref(s, h)), s, l, max, threshold)
RECURSIVE prune_loop_at(_, _, _, _, _)
prune_loop_at(spans, l, h, max, threshold) ==
    IF spans = <<>> THEN l
    ELSE prune_loop_at(Tail(spans), loop_step_at(Head(spans), l, h, max, threshold),
                       h, max, threshold)
\* lines 155 and 173: json.dumps of the redacted list, a new str
dumped_at(r) ==
    IF IsRaise(r.ret) THEN r ELSE Result(json_dumps(deref(r.ret, r.heap)), r.heap)
\* line 173, spans_to_send being a new list that holds what the loop appended
pruned_at(l, e, h) ==
    dumped_at(omit_keys_at(Ref(Len(h) + 1), <<>>, e, Append(h, PyList(l.spans_to_send))))
\* lines 157-173, ordered_spans being the new list at the end of the heap h
pruned_from(spans, e, h, max, threshold) ==
    pruned_at(prune_loop_at(h[Len(h)].xs, loop_init_at(spans[Len(spans)], h),
                            h, max, threshold), e, h)
\* _create_request_body(msgs, ...) for the list at the address m.a
create_request_body_at(m, prune, max, threshold, e, h) ==
    IF send_whole(deref(m, h).xs, prune, max) THEN dumped_at(omit_keys_at(m, <<>>, e, h))
    ELSE IF h[m.a].xs = <<>> THEN Result(Raise("IndexError"), h)
    ELSE pruned_from(h[m.a].xs, e, Append(h, PyList(ordered_spans_at(h[m.a].xs, h))),
                     max, threshold)

\* the arguments: the values of omit_keys, and tuples (which omit_keys does
\* not look into) alone, in a list, in a mapping and under the skip-list key
Pair == PyTuple(<<PyInt(1), Secret>>)
ObjectValues ==
    Values(MaxDepth)
    \cup {Pair, PyList(<<Pair, Secret>>), PyDict(<<StrPair("b", Pair)>>),
          PyDict(<<StrPair(EXECUTION_TAGS_KEY, PyList(<<Secret, Pair>>)),
                   StrPair("Password", PyList(<<Secret>>)),
                   StrPair("c", PyList(<<Secret>>))>>)}
\* msgs: lists of spans, each a dict
ObjectMsgs ==
    {<<>>, <<FunctionSpan>>, <<HttpOk, HttpErr, FunctionSpan>>,
     <<HttpAuth, HttpOk, HttpExc, FunctionSpan>>,
     <<PyDict(<<StrPair("id", PyStr("h5")),
                StrPair(EXECUTION_TAGS_KEY, PyList(<<Secret>>))>>), HttpErr, FunctionSpan>>}

InitObjects ==
    /\ pc = "objects"
    /\ \/ /\ \E v \in ObjectValues : value = store(v, <<>>).ret /\ heap = store(v, <<>>).heap
          /\ env \in {NoOverride} \cup BadOverrides
          /\ msgs = <<>> /\ prune_size_flag = FALSE /\ max_size = 0
          /\ too_big_spans_threshold = 0
       \/ /\ msgs \in ObjectMsgs
          /\ value = store(PyList(msgs), <<>>).ret /\ heap = store(PyList(msgs), <<>>).heap
          /\ env = NoOverride
          /\ prune_size_flag \in BOOLEAN
          /\ max_size \in MaxSizes(msgs)
          /\ too_big_spans_threshold \in {1, TOO_BIG_SPANS_THRESHOLD}
    /\ regexes = <<>> /\ out = NotCalled /\ out2 = NotCalled /\ body = NoBody
    /\ container = NoContainer
    /\ Configuration = DefaultConfiguration /\ args = NoArgs
    /\ ret = NotCalled /\ log = <<>>

\* what a call leaves behind; args keeps the heap as it was at the call
Called(f, r) ==
    /\ args' = [f |-> f, heap |-> heap]
    /\ out' = r.ret /\ heap' = r.heap
    /\ pc' = "returned"
    /\ UNCHANGED <<env, value, regexes, out2, msgs, prune_size_flag, max_size,
                   too_big_spans_threshold, body, Configuration, ret, log, container>>

\* omit_keys(value)
OmitKeysAt ==
    /\ pc = "objects"
    /\ Called("omit_keys", omit_keys_at(value, regexes, env, heap))

\* _create_request_body(value, prune_size_flag, max_size, too_big_spans_threshold),
\* value being a list of spans
CreateRequestBodyAt ==
    /\ pc = "objects"
    /\ IsRef(value) /\ deref(value, heap) = PyList(msgs)
    /\ Called("_create_request_body",
              create_request_body_at(value, prune_size_flag, max_size,
                                     too_big_spans_threshold, env, heap))

NextObjects == OmitKeysAt \/ CreateRequestBodyAt
SpecObjects == InitObjects /\ [][NextObjects]_vars

-----------------------------------------------------------------------------
(* What the claims speak of, stated apart from the code above *)

\* the call has returned a value
Returned(r) == r.t \notin {"notcalled", "raise"}

\* The keys of the inputs that the configuration in force asks to mask: the
\* explicit pattern "a" (keys starting with a or A); else the override
\* [".*b.*", "x-api"] or []; else the default list.
ConfiguredMask(rx_arg, e) ==
    IF rx_arg # <<>> THEN {"apiKey"}
    ELSE IF e = << <<LUMIGO_SECRET_MASKING_REGEX, "[\".*b.*\", \"x-api\"]">> >> THEN {"b"}
    ELSE IF e = << <<LUMIGO_SECRET_MASKING_REGEX_BACKWARD_COMP, "[]">> >> THEN {}
    ELSE {"apiKey", "Password", "SessionTokenId", "Authorization", "key"}
MaskKey(k, mk) == k.t = "str" /\ k.s \in mk
SkipKey(k) == k = PyStr("lumigo_execution_tags_no_scrub")
IsText(v) == v.t \in {"str", "bytes"}
Text(v) == IF v.t = "str" THEN v.s ELSE v.y
KeysOf(d) == [i \in 1..Len(d.kv) |-> d.kv[i][1]]
\* the text may hold JSON that opens with one of opens: it starts with one of
\* them or with white space
OpensWith(v, opens) == Text(v) # "" /\ Head(Text(v)) \in opens \cup WS
\* the text holds a JSON object
HoldsObject(v) ==
    IsText(v) /\ OpensWith(v, {"{"}) /\ json_loads(Text(v)).t = "dict"
\* the text holds a JSON object or a JSON array
HoldsJson(v) ==
    IsText(v) /\ OpensWith(v, {"{", "["}) /\ json_loads(Text(v)).t \in {"dict", "list"}
\* the text is one that omit_keys looks into
Probed(v) == IsText(v) /\ StartsAt(Text(v), 1, "{") /\ HoldsObject(v)

\* A value read through the JSON text it holds. With skip, the value of a
\* skip-list key is left as it is and only text starting with "{" is read.
RECURSIVE Decode(_, _)
Decode(v, skip) ==
    CASE v.t = "list" -> PyList([i \in 1..Len(v.xs) |-> Decode(v.xs[i], skip)])
      [] v.t = "dict" ->
            PyDict([i \in 1..Len(v.kv) |->
                      <<v.kv[i][1],
                        IF skip /\ SkipKey(v.kv[i][1]) THEN v.kv[i][2]
                        ELSE Decode(v.kv[i][2], skip)>>])
      [] IsText(v) ->
            IF (skip /\ Probed(v)) \/ (~skip /\ HoldsJson(v))
            THEN Decode(json_loads(Text(v)), skip) ELSE v
      [] OTHER -> v

\* The same reading with the value of every key of mk replaced by the mask.
RECURSIVE Masked(_, _, _)
Masked(v, mk, skip) ==
    CASE v.t = "list" -> PyList([i \in 1..Len(v.xs) |-> Masked(v.xs[i], mk, skip)])
      [] v.t = "dict" ->
            PyDict([i \in 1..Len(v.kv) |->
                      <<v.kv[i][1],
                        IF skip /\ SkipKey(v.kv[i][1]) THEN v.kv[i][2]
                        ELSE IF MaskKey(v.kv[i][1], mk) THEN PyStr("****")
                        ELSE Masked(v.kv[i][2], mk, skip)>>])
      [] IsText(v) ->
            IF (skip /\ Probed(v)) \/ (~skip /\ HoldsJson(v))
            THEN Masked(json_loads(Text(v)), mk, skip) ELSE v
      [] OTHER -> v

\* a and b differ at most in the values of keys of mk, JSON-object text being
\* compared by what it encodes
RECURSIVE DiffersAtMasked(_, _, _)
DiffersAtMasked(a, b, mk) ==
    CASE a.t = "dict" ->
            /\ b.t = "dict" /\ KeysOf(a) = KeysOf(b)
            /\ \A i \in 1..Len(a.kv) :
                   MaskKey(a.kv[i][1], mk) \/ DiffersAtMasked(a.kv[i][2], b.kv[i][2], mk)
      [] a.t = "list" ->
            /\ b.t = "list" /\ Len(a.xs) = Len(b.xs)
            /\ \A i \in 1..Len(a.xs) : DiffersAtMasked(a.xs[i], b.xs[i], mk)
      [] IsText(a) ->
            \/ a = b
            \/ /\ HoldsObject(a) /\ HoldsObject(b)
               /\ DiffersAtMasked(json_loads(Text(a)), json_loads(Text(b)), mk)
      [] OTHER -> a = b

\* b has the type and the shape of a: lists of one length, mappings of the
\* same keys in the same order, str for str, bytes for bytes, scalars equal;
\* below a key of mk anything may stand
RECURSIVE SameShape(_, _, _)
SameShape(a, b, mk) ==
    /\ a.t = b.t
    /\ CASE a.t = "dict" ->
               /\ KeysOf(a) = KeysOf(b)
               /\ \A i \in 1..Len(a.kv) :
                      MaskKey(a.kv[i][1], mk) \/ SameShape(a.kv[i][2], b.kv[i][2], mk)
         [] a.t = "list" ->
               /\ Len(a.xs) = Len(b.xs)
               /\ \A i \in 1..Len(a.xs) : SameShape(a.xs[i], b.xs[i], mk)
         [] IsText(a) -> TRUE
         [] OTHER -> a = b

\* The same, but for text as omit_keys treats it: str or bytes that start with
\* "{" and hold a JSON object become str holding an object of that shape, any
\* other str or bytes stay as they are; the value of a skip-list key stays as
\* it is and the value of a key of mk is the mask.
RECURSIVE ShapeAsBuilt(_, _, _)
ShapeAsBuilt(a, b, mk) ==
    CASE a.t = "dict" ->
            /\ b.t = "dict" /\ KeysOf(a) = KeysOf(b)
            /\ \A i \in 1..Len(a.kv) :
                   IF SkipKey(a.kv[i][1]) THEN b.kv[i][2] = a.kv[i][2]
                   ELSE IF MaskKey(a.kv[i][1], mk) THEN b.kv[i][2] = PyStr("****")
                   ELSE ShapeAsBuilt(a.kv[i][2], b.kv[i][2], mk)
      [] a.t = "list" ->
            /\ b.t = "list" /\ Len(a.xs) = Len(b.xs)
            /\ \A i \in 1..Len(a.xs) : ShapeAsBuilt(a.xs[i], b.xs[i], mk)
      [] IsText(a) ->
            IF Probed(a)
            THEN /\ b.t = "str" /\ HoldsObject(b)
                 /\ ShapeAsBuilt(json_loads(Text(a)), json_loads(Text(b)), mk)
            ELSE b = a
      [] OTHER -> b = a

\* some mapping inside v, read through JSON text, has a key of mk outside the
\* values of skip-list keys
RECURSIVE HasMaskKey(_, _)
HasMaskKey(v, mk) ==
    CASE v.t = "dict" ->
            \E i \in 1..Len(v.kv) :
                /\ ~SkipKey(v.kv[i][1])
                /\ MaskKey(v.kv[i][1], mk) \/ HasMaskKey(v.kv[i][2], mk)
      [] v.t = "list" -> \E i \in 1..Len(v.xs) : HasMaskKey(v.xs[i], mk)
      [] IsText(v) -> Probed(v) /\ HasMaskKey(json_loads(Text(v)), mk)
      [] OTHER -> FALSE

\* What redaction is to make of v: the mask for the value of every key of mk,
\* the value of a skip-list key as it is, and str or bytes that start with "{"
\* and hold a JSON object replaced by the serialization of the redacted object.
RECURSIVE Redact(_, _)
Redact(v, mk) ==
    CASE v.t = "list" -> PyList([i \in 1..Len(v.xs) |-> Redact(v.xs[i], mk)])
      [] v.t = "dict" ->
            PyDict([i \in 1..Len(v.kv) |->
                      <<v.kv[i][1],
                        IF SkipKey(v.kv[i][1]) THEN v.kv[i][2]
                        ELSE IF MaskKey(v.kv[i][1], mk) THEN PyStr("****")
                        ELSE Redact(v.kv[i][2], mk)>>])
      [] IsText(v) ->
            IF Probed(v) THEN json_dumps(Redact(json_loads(Text(v)), mk)) ELSE v
      [] OTHER -> v

\* span by span, what redaction makes of the spans, and their serialization
RedactedSpan(span) == Redact(span, ConfiguredMask(<<>>, env))
RedactedSpans(spans) == [i \in 1..Len(spans) |-> RedactedSpan(spans[i])]
Dumped(spans) == json_dumps(PyList(spans))
\* the spans of the body returned, parsed back
SentBack == json_loads(body.ret.s)
\* text is a JSON array whose first element is serialized as el
FirstIs(text, el) ==
    /\ StartsAt(text, 1, "[" \o el)
    /\ Ch(text, Len(el) + 2) \in {",", "]"}
Built == pc = "built" /\ Returned(body.ret)
SpanSize(span) == b64_len(Len(json_dumps(span).s))
RECURSIVE SumSpanSizes(_, _, _)
SumSpanSizes(spans, lo, hi) ==
    IF lo > hi THEN 0
    ELSE IF lo = hi THEN SpanSize(spans[lo])
    ELSE SumSpanSizes(spans, lo, (lo + hi) \div 2) + SumSpanSizes(spans, (lo + hi) \div 2 + 1, hi)
WholeCase ==
    \/ ~prune_size_flag
    \/ Len(msgs) < 200 /\ SpanSize(PyList(msgs)) < max_size
PruningCase == ~WholeCase /\ msgs # <<>>
Redacted == pc = "redacted" /\ Returned(out)
Mask == ConfiguredMask(regexes, env)

-----------------------------------------------------------------------------
(* The claims about _create_request_body *)

\* C1: when prune_size_flag is false, or when msgs has fewer than 200 spans and
\* the base64 size of the whole list is below max_size, the body returned is
\* the redacted serialization of all the spans of msgs, in their input order,
\* none dropped.
C1_AllSpansInOrder ==
    Built /\ WholeCase => body.ret = Dumped(RedactedSpans(msgs))

\* C1, its case: pruning is on, the list is under both limits, it holds several
\* spans and redaction masks something in it.
C1_Witness ==
    /\ Built /\ prune_size_flag /\ WholeCase /\ Len(msgs) >= 3
    /\ body.ret # Dumped(msgs)
    /\ body.ret = Dumped(RedactedSpans(msgs))

\* C2: on the pruning path (pruning on and 200 spans or more, or the whole list
\* at or over max_size) the last span of a non-empty msgs, the function span,
\* is the first element of the body returned, whatever max_size and
\* too_big_spans_threshold are. (An empty msgs has no last span: the call
\* raises IndexError at line 157.)
C2_FunctionSpanFirst ==
    Built /\ PruningCase =>
        FirstIs(body.ret.s, json_dumps(RedactedSpan(msgs[Len(msgs)])).s)

\* C2, its case: max_size is below the size of the function span alone, and
\* the function span is the only span returned although msgs held others.
C2_Witness ==
    /\ Built /\ PruningCase
    /\ max_size < SpanSize(msgs[Len(msgs)]) /\ max_size > 0
    /\ Len(msgs) >= 2 /\ msgs[1] # msgs[Len(msgs)]
    /\ body.ret = Dumped(<<RedactedSpan(msgs[Len(msgs)])>>)

\* msgs is [http without error, http with error, function], each of size S
EqualSizedTriple(S) ==
    /\ Len(msgs) = 3
    /\ \A i \in 1..3 : SpanSize(msgs[i]) = S
    /\ ~_is_span_has_error(msgs[1]) /\ _is_span_has_error(msgs[2])
EqualSized == \A i \in 1..Len(msgs) : SpanSize(msgs[i]) = SpanSize(msgs[1])
IsSent(span) == \E n \in 2..Len(SentBack.xs) : SentBack.xs[n] = RedactedSpan(span)

\* C3: for msgs = [http(status 200), http(error), function], each of encoded
\* size S, and max_size = 2S + 1, the body returned is exactly
\* [function, http(error)]: the span without an error is the one dropped. More
\* generally, among spans of one size before the function span, no span
\* without an error is sent while a span with an error is dropped.
C3_ErrorSpanKept ==
    /\ (Built /\ prune_size_flag /\ EqualSizedTriple(SpanSize(msgs[1]))
          /\ max_size = 2 * SpanSize(msgs[1]) + 1)
       => body.ret = Dumped(<<RedactedSpan(msgs[3]), RedactedSpan(msgs[2])>>)
    /\ (Built /\ PruningCase /\ EqualSized)
       => \A i, j \in 1..(Len(msgs) - 1) :
              (~_is_span_has_error(msgs[i]) /\ _is_span_has_error(msgs[j]) /\ IsSent(msgs[i]))
              => IsSent(msgs[j])

\* C3, its case: the triple of the claim with max_size = 2S + 1, built.
C3_Witness ==
    /\ Built /\ prune_size_flag /\ EqualSizedTriple(SpanSize(msgs[1]))
    /\ max_size = 2 * SpanSize(msgs[1]) + 1
    /\ Len(SentBack.xs) = 2 /\ IsSent(msgs[2]) /\ ~IsSent(msgs[1])

\* C4 as stated: with pruning on, the base64 size of the body returned, that
\* is of the redacted list serialized as a whole, is below max_size.
C4_ReturnedBodyFits ==
    Built /\ prune_size_flag => b64_len(Len(body.ret.s)) < max_size

\* C4 as the code has it: with pruning on, what is below max_size is the size
\* the code measures before redaction. When the whole list is returned it is
\* the base64 size of the whole unredacted list; when the list is pruned it is
\* the sum of the base64 sizes of the unredacted spans sent, each serialized
\* alone, provided a span besides the function span is sent or the function
\* span alone is below max_size.
C4_MeasuredSizeFits ==
    Built /\ prune_size_flag =>
        IF WholeCase THEN SpanSize(PyList(msgs)) < max_size
        ELSE /\ body.ret = Dumped(RedactedSpans(body.sent))
             /\ (Len(body.sent) > 1 \/ SpanSize(msgs[Len(msgs)]) < max_size)
                => SumSpanSizes(body.sent, 1, Len(body.sent)) < max_size

\* C4, its case: the list is pruned, spans are sent besides the function span
\* and others are dropped, and the body returned is over max_size although the
\* measured sum is under it.
C4_Witness ==
    /\ Built /\ prune_size_flag /\ PruningCase
    /\ Len(body.sent) > 1 /\ Len(body.sent) < Len(msgs)
    /\ SumSpanSizes(body.sent, 1, Len(body.sent)) < max_size
    /\ b64_len(Len(body.ret.s)) >= max_size

\* the spans sent on the pruning path, as the body returned holds them
Pruned == Built /\ PruningCase /\ body.ret = Dumped(RedactedSpans(body.sent))
\* the candidates that were sent: the spans of the body after the function span
Kept == Tail(body.sent)
\* the encoded size of the function span and of the first k spans sent after it
RunningSize(k) == SumSpanSizes(body.sent, 1, k + 1)

\* C23: on the pruning path a candidate is appended only if the running
\* encoded size, of the function span and the spans appended before it, plus
\* its own size is strictly below max_size; hence, when the function span's
\* own size is below max_size, the per-span sizes of the output add up to less
\* than max_size.
C23_AppendedOnlyIfBelow ==
    Pruned =>
        /\ \A k \in 1..Len(Kept) : RunningSize(k - 1) + SpanSize(Kept[k]) < max_size
        /\ SpanSize(msgs[Len(msgs)]) < max_size => RunningSize(Len(Kept)) < max_size

\* C23, its case: spans are appended and one is dropped that would have fitted
\* next to the function span alone
C23_Witness ==
    /\ Pruned
    /\ Len(Kept) >= 2 /\ Len(body.sent) < Len(msgs)
    /\ RunningSize(Len(Kept)) < max_size
    /\ \E i \in 1..(Len(msgs) - 1) :
          /\ \A k \in 1..Len(Kept) : Kept[k] # msgs[i]
          /\ RunningSize(0) + SpanSize(msgs[i]) < max_size

\* the priority the spec gives a span: an error field that is not null, or a
\* status code of the response or of the return value over 400
StatusOver400(v) == v.t = "int" /\ v.n > 400
Field(v, k) == IF v.t = "dict" THEN kv_get(v.kv, PyStr(k), PyNone) ELSE PyNone
HighPriority(span) ==
    \/ Field(span, "error") # PyNone
    \/ StatusOver400(Field(Field(Field(Field(span, "info"), "httpInfo"), "response"), "statusCode"))
    \/ StatusOver400(Field(Field(span, "returnValue"), "statusCode"))
\* a comes before b among the candidates of msgs
InputOrder(a, b) ==
    \E p, q \in 1..(Len(msgs) - 1) : p < q /\ msgs[p] = a /\ msgs[q] = b

\* C25: on the pruning path the spans kept after the function span are in
\* error-priority order, stable on ties: every kept high-priority span comes
\* before every kept low-priority span, and two kept spans of one priority are
\* in their input order.
C25_PriorityOrderStable ==
    Pruned =>
        \A i, j \in 1..Len(Kept) :
            i < j =>
                /\ ~(~HighPriority(Kept[i]) /\ HighPriority(Kept[j]))
                /\ (HighPriority(Kept[i]) = HighPriority(Kept[j]) /\ Kept[i] # Kept[j])
                       => InputOrder(Kept[i], Kept[j])

\* C25, its case: two spans with an error are kept in their input order, ahead
\* of a span without an error that came first in msgs
C25_Witness ==
    /\ Pruned
    /\ Len(Kept) >= 3
    /\ HighPriority(Kept[1]) /\ HighPriority(Kept[2]) /\ Kept[1] # Kept[2]
    /\ ~HighPriority(Kept[3])
    /\ ~HighPriority(msgs[1])
    /\ InputOrder(Kept[1], Kept[2]) /\ ~InputOrder(Kept[2], Kept[1])

\* how many times span is in spans
Times(span, spans) == Cardinality({i \in 1..Len(spans) : spans[i] = span})

\* C27: when the pruning path is taken only because msgs has 200 spans or more
\* while the encoded size of the whole list is below max_size, no span is
\* dropped: the output holds every input span exactly once, the function span
\* first.
C27_NothingDropped ==
    (Pruned /\ Len(msgs) >= 200 /\ SpanSize(PyList(msgs)) < max_size) =>
        /\ Len(body.sent) = Len(msgs)
        /\ body.sent[1] = msgs[Len(msgs)]
        /\ \A i \in 1..Len(msgs) : Times(msgs[i], body.sent) = Times(msgs[i], msgs)

\* C27, its case: 200 spans whose whole encoded size is one under max_size
C27_Witness ==
    /\ Pruned /\ Len(msgs) = 200
    /\ SpanSize(PyList(msgs)) = max_size - 1
    /\ Len(body.sent) = 200

\* the candidates in the order of the scan
LowPriority(span) == ~HighPriority(span)
Candidates ==
    SelectSeq(SubSeq(msgs, 1, Len(msgs) - 1), HighPriority)
    \o SelectSeq(SubSeq(msgs, 1, Len(msgs) - 1), LowPriority)
\* the scan as the claim has it: it is over once the candidates that did not
\* fit are too_big_spans_threshold in number; until then a candidate that fits
\* is kept
ScanOne(span, st) ==
    IF st.rejected = too_big_spans_threshold THEN st
    ELSE IF st.size + SpanSize(span) < max_size
    THEN [st EXCEPT !.kept = Append(@, span), !.size = @ + SpanSize(span)]
    ELSE [st EXCEPT !.rejected = @ + 1]
RECURSIVE Scan(_, _, _, _)
Scan(spans, lo, hi, st) ==
    IF lo > hi THEN st
    ELSE IF lo = hi THEN ScanOne(spans[lo], st)
    ELSE Only({Scan(spans, (lo + hi) \div 2 + 1, hi, half) :
                   half \in {Scan(spans, lo, (lo + hi) \div 2, st)}})
KeptUntilStop ==
    Scan(Candidates, 1, Len(Candidates),
         [size |-> SpanSize(msgs[Len(msgs)]), rejected |-> 0, kept |-> <<>>]).kept

\* C24: on the pruning path the scan stops once the candidates that did not fit
\* are too_big_spans_threshold in number: the output holds the candidates that
\* fit up to there and no candidate ordered after the stop, even one that
\* would fit, for every threshold, 0 and 1 included.
C24_StopsAtThreshold == Pruned => Kept = KeptUntilStop

-----------------------------------------------------------------------------
(* The claims about omit_keys *)

\* C5 as stated: at any nesting depth of mappings, lists and JSON-encoded
\* text, the value of every key that matches a configured regex is the mask
\* "****" in the value returned, and every other key keeps its value.
C5_MaskedAtAnyDepth ==
    Redacted => Decode(out, FALSE) = Masked(value, Mask, FALSE)

\* C5 as the code has it: the value returned is the input with the mask "****"
\* in place of the value of every matching str key, and every other value
\* unchanged, at any depth of mappings, lists and the str or bytes that start
\* with "{" and hold a JSON object; the value of the skip-list key
\* lumigo_execution_tags_no_scrub is passed through as it is, and other text
\* (JSON arrays, JSON with leading whitespace) is not looked into.
C5_MaskedWhereLooked ==
    Redacted => Decode(out, TRUE) = Masked(value, Mask, TRUE)

\* C5, its case: a matching key two levels down, below JSON text, is masked,
\* while the value under a skip-list key is passed through.
C5_Witness ==
    /\ Redacted /\ out # value
    /\ value.t = "dict" /\ Len(value.kv) = 1 /\ value.kv[1][1] = PyStr("b")
    /\ Probed(value.kv[1][2])
    /\ ~MaskKey(PyStr("b"), Mask) /\ HasMaskKey(value, Mask)
    /\ Decode(out, TRUE) = Masked(value, Mask, TRUE)

\* C6: omit_keys is idempotent: with the regexes and the environment fixed,
\* omit_keys(omit_keys(x)) = omit_keys(x) for every x.
C6_Idempotent == pc = "redacted2" => out2 = out

\* C6, its case: the first call changed bytes holding JSON with a matching key
\* and the second call has returned.
C6_Witness ==
    /\ pc = "redacted2" /\ Returned(out2)
    /\ out # value /\ HasMaskKey(value, Mask)
    /\ \E i \in 1..Len(IF value.t = "list" THEN value.xs ELSE <<>>) : value.xs[i].t = "bytes"

\* b is a with the value of every skip-list key as it was and, in a mapping
\* that holds a skip-list key, the mask under every other key of mk; lists and
\* the values of the remaining keys are looked into, text is not
RECURSIVE TagsCarried(_, _, _)
TagsCarried(a, b, mk) ==
    CASE a.t = "dict" ->
            /\ b.t = "dict" /\ KeysOf(a) = KeysOf(b)
            /\ \A i \in 1..Len(a.kv) :
                   IF SkipKey(a.kv[i][1]) THEN b.kv[i][2] = a.kv[i][2]
                   ELSE IF MaskKey(a.kv[i][1], mk)
                   THEN (\E j \in 1..Len(a.kv) : SkipKey(a.kv[j][1]))
                            => b.kv[i][2] = PyStr("****")
                   ELSE TagsCarried(a.kv[i][2], b.kv[i][2], mk)
      [] a.t = "list" ->
            /\ b.t = "list" /\ Len(a.xs) = Len(b.xs)
            /\ \A i \in 1..Len(a.xs) : TagsCarried(a.xs[i], b.xs[i], mk)
      [] OTHER -> TRUE

\* C26: the value stored under the skip-list key lumigo_execution_tags_no_scrub
\* is returned by omit_keys unmodified, mask-matching keys nested in it
\* included, while the sibling keys of the same mapping are still redacted.
C26_TagsUnscrubbed == Redacted => TagsCarried(value, out, Mask)

\* C26, its case: a mapping holds the skip-list key over a mapping with a
\* matching key, next to a matching sibling key; the call returned the nested
\* mapping as it was and the mask for the sibling.
C26_Witness ==
    /\ Redacted /\ value.t = "dict" /\ Len(value.kv) = 2
    /\ SkipKey(value.kv[1][1]) /\ MaskKey(value.kv[2][1], Mask)
    /\ value.kv[1][2].t = "dict"
    /\ \E i \in 1..Len(value.kv[1][2].kv) : MaskKey(value.kv[1][2].kv[i][1], Mask)
    /\ out.kv[1][2] = value.kv[1][2]
    /\ out.kv[2][2] = PyStr("****") /\ value.kv[2][2] # PyStr("****")

\* the call of omit_keys or _create_request_body over the heap has returned
ReturnedAt == pc = "returned" /\ Returned(out)
\* the objects that were alive at the call
Before == 1..Len(args.heap)
\* the slots of the object c
Slots(c) ==
    IF c.t = "dict" THEN {c.kv[i][2] : i \in 1..Len(c.kv)} ELSE {c.xs[i] : i \in 1..Len(c.xs)}
\* the addresses of the objects that the slot s holds, at any depth
RECURSIVE Reach(_, _)
Reach(s, h) ==
    IF ~IsRef(s) THEN {} ELSE {s.a} \cup UNION {Reach(x, h) : x \in Slots(h[s.a])}
\* the argument is as it was: no object alive at the call has changed, and so
\* the value of the argument, with every nested mapping and list, is the same
ArgumentAsBefore ==
    /\ \A a \in Before : heap[a] = args.heap[a]
    /\ deref(value, heap) = deref(value, args.heap)
\* the objects of the argument s that redaction hands over as they are: what
\* a skip-list key holds, and what is neither list, mapping, str nor bytes;
\* lists and the values of the keys that are not masked are looked into
RECURSIVE HandedOver(_, _, _)
HandedOver(s, h, mk) ==
    IF ~IsRef(s) THEN {}
    ELSE CASE h[s.a].t = "list" ->
                 UNION {HandedOver(h[s.a].xs[i], h, mk) : i \in 1..Len(h[s.a].xs)}
           [] h[s.a].t = "dict" ->
                 UNION {IF SkipKey(h[s.a].kv[i][1]) THEN Reach(h[s.a].kv[i][2], h)
                        ELSE IF MaskKey(h[s.a].kv[i][1], mk) THEN {}
                        ELSE HandedOver(h[s.a].kv[i][2], h, mk) : i \in 1..Len(h[s.a].kv)}
           [] OTHER -> Reach(s, h)

\* C30 as stated: omit_keys and _create_request_body leave their arguments
\* unchanged (the input value, with every nested mapping and list and the
\* order of msgs, is equal to what it was before the call), and the redacted
\* or pruned result is a fresh structure: it holds no object of the input.
C30_FreshResult ==
    ReturnedAt => ArgumentAsBefore /\ Reach(out, heap) \cap Before = {}

\* C30 as the code has it: the arguments are left unchanged, and every list
\* and mapping of the result is a new object except for what omit_keys hands
\* over as it is: the value under a skip-list key, and a value that is neither
\* list, mapping, str nor bytes; these are the objects of the input, shared
\* with the result. What _create_request_body returns is a new str.
C30_UnchangedAndSharing ==
    ReturnedAt =>
        /\ ArgumentAsBefore
        /\ Reach(out, heap) \cap Before \subseteq HandedOver(value, args.heap, Mask)
        /\ args.f = "_create_request_body" => out.t = "str"

\* C30, its case: omit_keys returned a new mapping that masks one key, holds
\* a new list for another and shares with its argument the list under the
\* skip-list key, and the argument is as it was.
C30_Witness ==
    /\ ReturnedAt /\ args.f = "omit_keys" /\ ArgumentAsBefore
    /\ IsRef(out) /\ out.a \notin Before
    /\ deref(out, heap) # deref(value, heap)
    /\ Reach(out, heap) \cap Before # {}
    /\ Reach(out, heap) \ Before # {out.a}

\* C7 as stated: omit_keys returns a value for every input and never raises.
C7_NeverRaises == pc # "redact" => Returned(out)

\* C8 as stated: with a malformed masking override in the environment,
\* omit_keys called without explicit regexes still returns.
C8_MalformedOverrideReturns ==
    pc = "redacted" /\ regexes = <<>> /\ env \in BadOverrides => Returned(out)

\* C9: for a str that is a JSON-encoded object, omit_keys returns a str that
\* is valid JSON of a mapping with the same set of keys, and only the values
\* of matching keys differ from the original.
C9_JsonTextKeepsKeys ==
    Redacted /\ value.t = "str" /\ HoldsObject(value) =>
        /\ out.t = "str" /\ HoldsObject(out)
        /\ {json_loads(out.s).kv[i][1] : i \in 1..Len(json_loads(out.s).kv)}
             = {json_loads(value.s).kv[i][1] : i \in 1..Len(json_loads(value.s).kv)}
        /\ DiffersAtMasked(json_loads(value.s), json_loads(out.s), Mask)

\* C9, its case: JSON text with a matching top-level key has been redacted.
C9_Witness ==
    /\ Redacted /\ value.t = "str" /\ HoldsObject(value)
    /\ \E i \in 1..Len(json_loads(value.s).kv) : MaskKey(json_loads(value.s).kv[i][1], Mask)
    /\ json_loads(out.s) # json_loads(value.s)

\* C10 as stated: the value returned has the type and the shape of the input:
\* a list of the same length, a mapping of the same keys in the same order,
\* str for str, bytes for bytes, scalars themselves.
C10_SameTypeAndShape == Redacted => SameShape(value, out, Mask)

\* C10 as the code has it: a list maps to a list of the same length and order,
\* a mapping to a mapping of the same keys in the same order, scalars to
\* themselves; str or bytes that start with "{" and hold a JSON object map to
\* str holding the re-serialized object of the same shape, and every other
\* str or bytes to itself; the values that change otherwise are those of
\* matching keys, which become the mask.
C10_ShapeAsBuilt == Redacted => ShapeAsBuilt(value, out, Mask)

\* C10, its case: a list holding bytes of a JSON object came back as a list of
\* the same length holding str.
C10_Witness ==
    /\ Redacted /\ value.t = "list" /\ out.t = "list" /\ Len(out.xs) = Len(value.xs)
    /\ \E i \in 1..Len(value.xs) : value.xs[i].t = "bytes" /\ out.xs[i].t = "str"

-----------------------------------------------------------------------------
(* config(...) and get_timeout_buffer(remaining_time)                       *)
(* Times are int (seconds) or float (ticks of 0.0001 s).                    *)

DOMAIN_SCRUBBER_REGEXES ==
    << "secretsmanager\\..*\\.amazonaws\\.com", "ssm\\..*\\.amazonaws\\.com",
       "kms\\..*\\.amazonaws\\.com", "sts\\..*amazonaws\\.com" >>

\* bool(v)
truthy(v) ==
    CASE v.t = "none" -> FALSE
      [] v.t = "bool" -> v.b
      [] v.t = "int" -> v.n # 0
      [] v.t = "float" -> v.ticks # 0
      [] v.t = "str" -> v.s # ""
      [] v.t = "bytes" -> v.y # ""
      [] v.t = "list" -> v.xs # <<>>
      [] v.t = "dict" -> v.kv # <<>>
      [] OTHER -> TRUE

\* os.environ.get(name, "").lower() == "true"
env_true(e, name) == Lower(kv_get(e, name, "")) = "true"

\* line 236: bool(os.environ.get("LAMBDA_RUNTIME_DIR"))
is_aws_environment(e) == kv_get(e, "LAMBDA_RUNTIME_DIR", "") # ""

\* float(text) for text of the form digits or digits.digits with at most four
\* decimals; other text (the forms with a sign, an exponent, inf, nan or
\* white space around are not among the inputs) raises ValueError
float_fraction(s, whole, i, frac) ==
    IF frac.i = i \/ frac.i # Len(s) + 1 \/ frac.i - i > 4 THEN Raise("ValueError")
    ELSE PyFloat(whole * 10000 + frac.v.n * 10 ^ (4 - (frac.i - i)))
float_whole(s, whole) ==
    IF whole.i = 1 THEN Raise("ValueError")
    ELSE IF whole.i = Len(s) + 1 THEN PyFloat(whole.v.n * 10000)
    ELSE IF Ch(s, whole.i) = "."
    THEN float_fraction(s, whole.v.n, whole.i + 1, parse_digits(s, whole.i + 1, 0))
    ELSE Raise("ValueError")
float_of(s) == float_whole(s, parse_digits(s, 1, 0))

\* lines 106-113: the buffer configured, and the warning of the except branch
buffer_parsed(r) ==
    IF IsRaise(r)
    THEN [buffer |-> PyNone,
          warned |-> <<"warn_client: Could not configure LUMIGO_TIMEOUT_BUFFER. Using default value.">>]
    ELSE [buffer |-> r, warned |-> <<>>]
buffer_configured(a, e) ==
    IF InEnv(e, "LUMIGO_TIMEOUT_BUFFER")
    THEN buffer_parsed(float_of(kv_get(e, "LUMIGO_TIMEOUT_BUFFER", "")))
    ELSE [buffer |-> a.timeout_timer_buffer, warned |-> <<>>]

\* lines 115-127: the patterns of the domains scrubber; off is set by the
\* except branch, which also logs
scrubber_loaded(r) ==
    IF IsRaise(r)
    THEN [patterns |-> PyList(<<>>), off |-> TRUE,
          logged |-> <<"critical: Could not parse the specified domains scrubber, shutting down the reporter.">>]
    ELSE [patterns |-> r, off |-> FALSE, logged |-> <<>>]
scrubber_given(a, e) ==
    IF truthy(a.domains_scrubber)
    THEN [patterns |-> a.domains_scrubber, off |-> FALSE, logged |-> <<>>]
    ELSE IF InEnv(e, "LUMIGO_DOMAINS_SCRUBBER")
    THEN scrubber_loaded(IF InEnv(e, "LUMIGO_DOMAIN_SCRUBBER")
                         THEN json_loads(kv_get(e, "LUMIGO_DOMAIN_SCRUBBER", ""))
                         ELSE Raise("KeyError"))
    ELSE [patterns |-> PyList([i \in 1..Len(DOMAIN_SCRUBBER_REGEXES) |->
                                  PyStr(DOMAIN_SCRUBBER_REGEXES[i])]),
          off |-> FALSE, logged |-> <<>>]

\* lines 96-99
should_report_set(a, e, old) ==
    IF a.should_report # PyNone THEN a.should_report
    ELSE IF ~is_aws_environment(e) THEN PyBool(FALSE)
    ELSE old.should_report

\* lines 96-127: the attributes assigned before the patterns are compiled
config_assigned(a, e, old, b, d) ==
    [should_report |-> IF d.off THEN PyBool(FALSE) ELSE should_report_set(a, e, old),
     host |-> IF a.edge_host # "" THEN a.edge_host ELSE kv_get(e, "LUMIGO_TRACER_HOST", ""),
     token |-> IF a.token # "" THEN a.token ELSE kv_get(e, "LUMIGO_TRACER_TOKEN", ""),
     verbose |-> a.verbose /\ Lower(kv_get(e, "LUMIGO_VERBOSE", "")) # "false",
     enhanced_print |-> a.enhance_print \/ env_true(e, "LUMIGO_ENHANCED_PRINT"),
     is_step_function |-> a.step_function \/ env_true(e, "LUMIGO_STEP_FUNCTION"),
     timeout_timer |-> a.timeout_timer,
     timeout_timer_buffer |-> b.buffer,
     send_only_if_error |-> env_true(e, "SEND_ONLY_IF_ERROR"),
     domains_scrubber |-> old.domains_scrubber]

\* line 128: the compiled patterns are assigned, or re.compile raises and the
\* attributes assigned so far stay
config_compiled(conf, compiled, logged) ==
    IF IsRaise(compiled) THEN [conf |-> conf, ret |-> compiled, logged |-> logged]
    ELSE [conf |-> [conf EXCEPT !.domains_scrubber = compiled], ret |-> PyNone,
          logged |-> logged]
config_scrubbed(a, e, old, b, d) ==
    config_compiled(config_assigned(a, e, old, b, d), iterate_given(d.patterns),
                    b.warned \o d.logged)

\* config(**a) with the environment e and the attributes old
config(a, e, old) == config_scrubbed(a, e, old, buffer_configured(a, e), scrubber_given(a, e))

\* int and float compared: the value in ticks
Ticks(v) == IF v.t = "int" THEN v.n * 10000 ELSE v.ticks
\* 0.1 * remaining_time (exact for the whole milliseconds the inputs are)
tenth(v) == PyFloat(Ticks(v) \div 10)
\* min(a, b) and max(a, b) of Python: a unless b is strictly beyond it
py_min(a, b) == IF Ticks(b) < Ticks(a) THEN b ELSE a
py_max(a, b) == IF Ticks(b) > Ticks(a) THEN b ELSE a

\* variant of default_buffer without the upper bound
default_buffer_unbounded(remaining_time) == py_max(PyFloat(5000), tenth(remaining_time))

\* line 385: max(0.5, min(0.1 * remaining_time, 3))
default_buffer(remaining_time) == py_max(PyFloat(5000), py_min(tenth(remaining_time), PyInt(3)))

\* lines 382-386
get_timeout_buffer(remaining_time, conf) ==
    IF ~truthy(conf.timeout_timer_buffer) THEN default_buffer(remaining_time)
    ELSE conf.timeout_timer_buffer

\* the arguments of config: the defaults, and some given
DefaultArgs ==
    [f |-> "config", edge_host |-> "", should_report |-> PyNone, token |-> "",
     verbose |-> TRUE, enhance_print |-> FALSE, step_function |-> FALSE,
     timeout_timer |-> TRUE, timeout_timer_buffer |-> PyNone, domains_scrubber |-> PyNone]
ConfigArgs ==
    {[DefaultArgs EXCEPT !.should_report = r, !.timeout_timer_buffer = b] :
        r \in {PyNone, PyBool(TRUE)},
        b \in {PyNone, PyInt(0), PyInt(2), PyFloat(15000), PyFloat(0)}}
    \cup {[DefaultArgs EXCEPT !.should_report = PyBool(FALSE)]}
    \cup {[DefaultArgs EXCEPT !.should_report = PyBool(TRUE), !.domains_scrubber = d,
                              !.token = "123"] :
             d \in {PyList(<<>>), PyList(<<PyStr(".*google.*")>>), PyList(<<PyStr("(")>>)}}
\* os.environ: the timeout buffer and the domains scrubber, well and ill formed
ConfigEnvs ==
    {<<>>, << <<"LAMBDA_RUNTIME_DIR", "/var/runtime">> >>}
    \cup {<< <<"LUMIGO_TIMEOUT_BUFFER", b>> >> : b \in {"0", "2.5", "abc", "", "0.75"}}
    \cup {<< <<"LUMIGO_DOMAINS_SCRUBBER", d>> >> : d \in {"[\"bad json", "[\".*x.*\"]"}}
    \cup {<< <<"LUMIGO_DOMAIN_SCRUBBER", "[\"bad json">> >>}
    \cup {<< <<"LAMBDA_RUNTIME_DIR", "/var/runtime">>, <<"LUMIGO_DOMAINS_SCRUBBER", d>> >> :
             d \in {"[\"bad json", "[\".*x.*\"]"}}
    \cup {<< <<"LAMBDA_RUNTIME_DIR", "/var/runtime">>,
              <<"LUMIGO_DOMAINS_SCRUBBER", "[\".*x.*\"]">>,
              <<"LUMIGO_DOMAIN_SCRUBBER", "[\".*x.*\"]">> >>}
    \cup {<< <<"LUMIGO_DOMAINS_SCRUBBER", "[\"bad json">>, <<"LUMIGO_DOMAIN_SCRUBBER", d>> >> :
             d \in {"[\"bad json", "[\".*x.*\"]", "[\"(\"]", "[]"}}
RemainingTimes ==
    {PyInt(n) : n \in {-3, 0, 1, 4, 5, 6, 10, 29, 30, 31, 100, 900}}
    \cup {PyFloat(49000), PyFloat(301000)}

MaxConfigCalls == 2   \* calls of config in a process

InitConfig ==
    /\ pc = 0
    /\ env \in ConfigEnvs
    /\ Configuration = DefaultConfiguration /\ args = NoArgs
    /\ ret = NotCalled /\ log = <<>>
    /\ value = PyNone /\ regexes = <<>> /\ out = NotCalled /\ out2 = NotCalled
    /\ msgs = <<>> /\ prune_size_flag = FALSE /\ max_size = 0
    /\ too_big_spans_threshold = 0 /\ body = NoBody
    /\ container = NoContainer /\ heap = <<>>

\* what a call of config leaves behind
Configured(r) ==
    /\ Configuration' = r.conf
    /\ ret' = r.ret
    /\ log' = log \o r.logged

\* config(**a), called with os.environ as the process has it at that call
Config ==
    /\ pc \in 0..(MaxConfigCalls - 1)
    /\ args.f \in {"none", "config"}
    /\ \E a \in ConfigArgs, e \in ConfigEnvs :
          /\ args' = a /\ env' = e
          /\ Configured(config(a, e, Configuration))
    /\ pc' = pc + 1
    /\ UNCHANGED <<value, regexes, out, out2, msgs, prune_size_flag, max_size, heap,
                   too_big_spans_threshold, body, container>>

GetTimeoutBuffer ==
    /\ pc \in 0..MaxConfigCalls
    /\ args.f \in {"none", "config"}
    /\ \E remaining_time \in RemainingTimes :
          /\ args' = [f |-> "get_timeout_buffer", remaining_time |-> remaining_time]
          /\ ret' = get_timeout_buffer(remaining_time, Configuration)
    /\ UNCHANGED <<pc, env, value, regexes, out, out2, msgs, prune_size_flag, max_size, heap,
                   too_big_spans_threshold, body, container, Configuration, log>>

NextConfig == Config \/ GetTimeoutBuffer
SpecConfig == InitConfig /\ [][NextConfig]_vars

\* x held between lo and hi
Clamp(x, lo, hi) == IF x < lo THEN lo ELSE IF x > hi THEN hi ELSE x
Buffered == args.f = "get_timeout_buffer"
SecondsGive(seconds, ticks) == args.remaining_time = PyInt(seconds) => Ticks(ret) = ticks

\* C11: with no override configured, get_timeout_buffer(remaining_time) is
\* 0.1 * remaining_time held between 0.5 and 3.0: 10 s gives 1.0, 1 s gives
\* 0.5, 100 s gives 3.0, and the result always lies in [0.5, 3.0].
C11_DefaultBufferClamped ==
    Buffered /\ Configuration.timeout_timer_buffer = PyNone =>
        /\ Ticks(ret) = Clamp(Ticks(args.remaining_time) \div 10, 5000, 30000)
        /\ SecondsGive(10, 10000) /\ SecondsGive(1, 5000) /\ SecondsGive(100, 30000)
        /\ Ticks(ret) >= 5000 /\ Ticks(ret) <= 30000

\* C11, its case: config ran with no buffer given (or one that float() refuses)
\* and 100 s of remaining time gave the upper bound.
C11_Witness ==
    /\ Buffered /\ pc >= 1 /\ Configuration.timeout_timer_buffer = PyNone
    /\ args.remaining_time = PyInt(100) /\ Ticks(ret) = 30000

\* an override has been configured: config was given a buffer, by argument or
\* by LUMIGO_TIMEOUT_BUFFER, and holds it
OverrideConfigured == pc >= 1 /\ Configuration.timeout_timer_buffer # PyNone

\* C12 as stated: a configured override b always wins: for every b, 0
\* included, and every remaining_time, get_timeout_buffer returns b.
C12_OverrideWins ==
    Buffered /\ OverrideConfigured => ret = Configuration.timeout_timer_buffer

\* the environment carries a domains-scrubber override that is not valid JSON
BadScrubberOverride ==
    /\ InEnv(env, "LUMIGO_DOMAINS_SCRUBBER")
    /\ IsRaise(json_loads(kv_get(env, "LUMIGO_DOMAINS_SCRUBBER", "")))

\* C17 as stated: with a domains-scrubber override that is not valid JSON in
\* the environment and no domains_scrubber argument, config() does not raise,
\* sets should_report to False even if True was passed, and leaves
\* domains_scrubber an empty list.
C17_BadScrubberShutsDown ==
    args.f = "config" /\ pc >= 1 /\ BadScrubberOverride /\ ~truthy(args.domains_scrubber) =>
        /\ ~IsRaise(ret)
        /\ Configuration.should_report = PyBool(FALSE)
        /\ Configuration.domains_scrubber = PyList(<<>>)

\* the patterns that LUMIGO_DOMAINS_SCRUBBER holds in the environment e
ScrubberOverride(e) == json_loads(kv_get(e, "LUMIGO_DOMAINS_SCRUBBER", ""))
\* patterns is a list of str, each a pattern that compiles
Compilable(patterns) ==
    /\ patterns.t = "list"
    /\ \A i \in 1..Len(patterns.xs) : ~IsRaise(re_compile(patterns.xs[i]))
\* the environment carries a domains-scrubber override that is a well-formed
\* JSON array of patterns
GoodScrubberOverride(e) ==
    InEnv(e, "LUMIGO_DOMAINS_SCRUBBER") /\ Compilable(ScrubberOverride(e))
\* patterns, each compiled case-insensitively
Compiled(patterns) == PyList([i \in 1..Len(patterns.xs) |-> re_compile(patterns.xs[i])])

\* C28 as stated: when config() is called with no domains_scrubber argument
\* and LUMIGO_DOMAINS_SCRUBBER holds a well-formed JSON array of patterns,
\* Configuration.domains_scrubber becomes exactly those patterns, compiled
\* case-insensitively, and should_report is not forced to False: a call with
\* should_report=True leaves it True.
C28_ScrubberFromEnvironment ==
    args.f = "config" /\ pc >= 1 /\ GoodScrubberOverride(env)
        /\ ~truthy(args.domains_scrubber) =>
        /\ ~IsRaise(ret)
        /\ Configuration.domains_scrubber = Compiled(ScrubberOverride(env))
        /\ args.should_report = PyBool(TRUE) => Configuration.should_report = PyBool(TRUE)

\* the scrubber setting of a call is valid: a domains_scrubber argument that
\* compiles, or no override in the environment, or a well-formed one
ValidScrubberSetting(a, e) ==
    IF truthy(a.domains_scrubber) THEN Compilable(a.domains_scrubber)
    ELSE InEnv(e, "LUMIGO_DOMAINS_SCRUBBER") => GoodScrubberOverride(e)
\* this step is a call of config with should_report=None, made in an AWS
\* environment with a valid scrubber setting, after an earlier call
PlainCallInAws ==
    /\ pc >= 1 /\ pc' = pc + 1
    /\ args'.should_report = PyNone
    /\ is_aws_environment(env') /\ ValidScrubberSetting(args', env')

\* C29 as stated: should_report persists across config() calls: a call with
\* should_report=None made in an AWS environment with a valid scrubber setting
\* leaves Configuration.should_report at whatever an earlier call set it to.
C29_ShouldReportPersists ==
    [][PlainCallInAws => Configuration'.should_report = Configuration.should_report]_vars

-----------------------------------------------------------------------------
(* format_frames(frames_infos)                                              *)
(* A FrameInfo is [filename, lineno, function, f_locals], f_locals a dict.  *)

MAX_VARS_SIZE == 100000
MAX_VAR_LEN == 200

\* repr(s) of a str: single quotes, double ones when s holds ' and no "
py_quote(s) == IF Contains(s, "'") /\ ~Contains(s, "\"") /\ s # "" THEN "\"" ELSE "'"
RECURSIVE py_escape(_, _)
py_escape(s, q) ==
    IF s = "" THEN ""
    ELSE (IF Head(s) = "\\" THEN "\\\\" ELSE IF Head(s) = "\n" THEN "\\n"
          ELSE IF Head(s) = q THEN "\\" \o q ELSE Head(s)) \o py_escape(Tail(s), q)

\* repr(v), and the elements of a list or dict joined by ", "
RECURSIVE py_repr(_)
RECURSIVE py_repr_items(_, _)
RECURSIVE py_repr_pairs(_, _)
py_repr_items(xs, i) ==
    IF i > Len(xs) THEN ""
    ELSE (IF i > 1 THEN ", " ELSE "") \o py_repr(xs[i]) \o py_repr_items(xs, i + 1)
py_repr_pairs(kv, i) ==
    IF i > Len(kv) THEN ""
    ELSE (IF i > 1 THEN ", " ELSE "") \o py_repr(kv[i][1]) \o ": " \o py_repr(kv[i][2])
         \o py_repr_pairs(kv, i + 1)
py_repr(v) ==
    CASE v.t = "none" -> "None"
      [] v.t = "bool" -> IF v.b THEN "True" ELSE "False"
      [] v.t = "int" -> ToString(v.n)
      [] v.t = "str" -> py_quote(v.s) \o py_escape(v.s, py_quote(v.s)) \o py_quote(v.s)
      [] v.t = "bytes" -> "b" \o py_quote(v.y) \o py_escape(v.y, py_quote(v.y)) \o py_quote(v.y)
      [] v.t = "list" -> "[" \o py_repr_items(v.xs, 1) \o "]"
      [] v.t = "dict" -> "{" \o py_repr_pairs(v.kv, 1) \o "}"

\* str(v)
py_str(v) == IF v.t = "str" THEN v.s ELSE py_repr(v)

\* lines 306-316: a dict is serialized if json.dumps takes it, bytes are decoded
jsonified(v, d) == IF IsRaise(d) THEN v ELSE d
large_data_value(v) ==
    IF v.t = "dict" THEN jsonified(v, json_dumps(v))
    ELSE IF v.t = "bytes" THEN PyStr(v.y)
    ELSE v
\* lines 318-321
truncated_to(res, size) ==
    IF Len(res) > size THEN SubSeq(res, 1, size) \o "...[too long]" ELSE res
\* prepare_large_data(value, max_size) with enforce_jsonify left False
prepare_large_data(v, size) == truncated_to(py_str(large_data_value(v)), size)

\* lines 272-278: the loop over f_locals.items()
RECURSIVE truncate_loop(_, _, _)
truncate_var(kv, free_space, var, locals_truncated) ==
    IF free_space <= 0 THEN PyDict(locals_truncated)
    ELSE truncate_loop(Tail(kv), free_space, kv_set(locals_truncated, var[1], var[2]))
truncate_sized(kv, free_space, var, locals_truncated) ==
    truncate_var(kv, free_space - Len(json_dumps(PyDict(<<var>>)).s), var, locals_truncated)
truncate_loop(kv, free_space, locals_truncated) ==
    IF kv = <<>> THEN PyDict(locals_truncated)
    ELSE truncate_sized(kv, free_space,
                        <<Head(kv)[1], PyStr(prepare_large_data(Head(kv)[2], MAX_VAR_LEN))>>,
                        locals_truncated)
_truncate_locals(f_locals, free_space) == truncate_loop(f_locals.kv, free_space, <<>>)

\* lines 257-263; the exception of omit_keys leaves the call
frame_record(frame_info, redacted, free_space) ==
    IF IsRaise(redacted) THEN redacted
    ELSE PyDict(<< <<PyStr("lineno"), PyInt(frame_info.lineno)>>,
                   <<PyStr("fileName"), PyStr(frame_info.filename)>>,
                   <<PyStr("function"), PyStr(frame_info.function)>>,
                   <<PyStr("variables"), _truncate_locals(redacted, free_space)>> >>)
format_frame(frame_info, free_space, e) ==
    frame_record(frame_info, omit_keys(frame_info.f_locals, <<>>, e), free_space)

\* line 250: "lumigo_tracer" in frame_info.filename
is_tracer_frame(frame_info) == Contains(frame_info.filename, "lumigo_tracer")

\* lines 252-253
frame_appended(frame, l) ==
    IF IsRaise(frame) THEN [l EXCEPT !.done = TRUE, !.raised = frame]
    ELSE [l EXCEPT !.frames = Append(@, frame),
                   !.free_space = @ - Len(json_dumps(frame).s)]

\* variant of frame_step that passes over a tracer frame and goes on
frame_step_skipping(frame_info, l, e) ==
    IF l.done THEN l
    ELSE IF l.free_space <= 0 THEN [l EXCEPT !.done = TRUE]
    ELSE IF is_tracer_frame(frame_info) THEN l
    ELSE frame_appended(format_frame(frame_info, l.free_space, e), l)

\* lines 250-253: one pass of the loop body; done is set by the return
frame_step(frame_info, l, e) ==
    IF l.done THEN l
    ELSE IF l.free_space <= 0 \/ is_tracer_frame(frame_info) THEN [l EXCEPT !.done = TRUE]
    ELSE frame_appended(format_frame(frame_info, l.free_space, e), l)

\* line 249: for frame_info in reversed(frames_infos), over the positions
\* lo..hi of the reversed list (the range is halved as in prune_loop)
RECURSIVE frames_loop(_, _, _, _, _)
frames_loop(frames_infos, lo, hi, l, e) ==
    IF lo > hi THEN l
    ELSE IF lo = hi THEN frame_step(frames_infos[Len(frames_infos) - lo + 1], l, e)
    ELSE Only({frames_loop(frames_infos, (lo + hi) \div 2 + 1, hi, half, e) :
                   half \in {frames_loop(frames_infos, lo, (lo + hi) \div 2, l, e)}})

\* lines 246-254
frames_returned(l) == IF IsRaise(l.raised) THEN l.raised ELSE PyList(l.frames)
format_frames(frames_infos, e) ==
    frames_returned(frames_loop(frames_infos, 1, Len(frames_infos),
                                [free_space |-> MAX_VARS_SIZE, frames |-> <<>>,
                                 done |-> FALSE, raised |-> PyNone], e))

MaxFrames == 3      \* frames of a short call stack
DeepFrames == 700   \* frames of the recursion in the deep call stack

FrameInfo(filename, lineno, function, f_locals) ==
    [filename |-> filename, lineno |-> lineno, function |-> function,
     f_locals |-> PyDict(f_locals)]
TracerFrame ==
    FrameInfo("/var/task/lumigo_tracer/sync_http/sync_hook.py", 120, "lambda_wrapper", <<>>)
HandlerFrame ==
    FrameInfo("/var/task/handler.py", 7, "handler",
              << StrPair("a", PyStr("A")), StrPair("password", PyStr("p")),
                 StrPair("d", PyDict(<<StrPair("k", PyInt(1))>>)),
                 StrPair("e", PyDict(<<StrPair("k", PyBytes("x"))>>)) >>)
InnerFrame ==
    FrameInfo("/var/task/h.py", 9, "inner",
              << StrPair("n", PyInt(1)), StrPair("xs", PyList(<<PyInt(1), PyStr("it's"), PyNone>>)),
                 StrPair("raw", PyBytes("ab")),
                 StrPair("body", PyStr("{\"apiKey\": \"s3\"}")) >>)
Ten == "0123456789"
Fifty == Ten \o Ten \o Ten \o Ten \o Ten
\* a local of 210 characters, longer than MAX_VAR_LEN
LongLocalFrame ==
    FrameInfo("/var/task/h.py", 30, "load",
              << StrPair("text", PyStr(Fifty \o Fifty \o Fifty \o Fifty \o Ten)) >>)
RecursionFrame ==
    FrameInfo("/var/task/src/handlers/orders/process_order.py", 42, "walk_order_tree",
              << StrPair("node", PyStr("n")), StrPair("apiKey", PyStr("s3")) >>)
FramePool == {TracerFrame, HandlerFrame, InnerFrame, LongLocalFrame}
ShortStacks == UNION {[1..n -> FramePool] : n \in 0..MaxFrames}
\* the tracer's wrapper, the handler, and a recursion of DeepFrames calls
DeepStack ==
    <<TracerFrame, FrameInfo("/var/task/handler.py", 7, "handler", <<StrPair("event", PyStr("{}"))>>)>>
    \o Repeat(RecursionFrame, DeepFrames)

InitFrames ==
    /\ pc = "frames"
    /\ \/ env = NoOverride /\ args \in {[f |-> "format_frames", frames_infos |-> st] :
                                          st \in ShortStacks \cup {DeepStack}}
       \/ env \in BadOverrides
          /\ args = [f |-> "format_frames", frames_infos |-> <<TracerFrame, HandlerFrame>>]
    /\ Configuration = DefaultConfiguration /\ ret = NotCalled /\ log = <<>>
    /\ value = PyNone /\ regexes = <<>> /\ out = NotCalled /\ out2 = NotCalled
    /\ msgs = <<>> /\ prune_size_flag = FALSE /\ max_size = 0
    /\ too_big_spans_threshold = 0 /\ body = NoBody
    /\ container = NoContainer /\ heap = <<>>

FormatFrames ==
    /\ pc = "frames"
    /\ ret' = format_frames(args.frames_infos, env)
    /\ pc' = "framed"
    /\ UNCHANGED <<env, value, regexes, out, out2, msgs, prune_size_flag, max_size, heap,
                   too_big_spans_threshold, body, container, Configuration, args, log>>

NextFrames == FormatFrames
SpecFrames == InitFrames /\ [][NextFrames]_vars

\* format_frames has returned a list
Framed == pc = "framed" /\ ret.t = "list"
\* the i-th frame that format_frames comes to: it walks the stack from its end
Visited(i) == args.frames_infos[Len(args.frames_infos) - i + 1]
AgentFile(name) == \E i \in 1..(Len(name) - 12) : SubSeq(name, i, i + 12) = "lumigo_tracer"
\* the record is the record of that frame
RecordOf(record, frame_info) ==
    /\ kv_get(record.kv, PyStr("fileName"), PyNone) = PyStr(frame_info.filename)
    /\ kv_get(record.kv, PyStr("lineno"), PyNone) = PyInt(frame_info.lineno)
    /\ kv_get(record.kv, PyStr("function"), PyNone) = PyStr(frame_info.function)
\* the serialized sizes of the records lo..hi, added up
RECURSIVE RecordSizes(_, _, _)
RecordSizes(records, lo, hi) ==
    IF lo > hi THEN 0
    ELSE IF lo = hi THEN Len(json_dumps(records[lo]).s)
    ELSE RecordSizes(records, lo, (lo + hi) \div 2)
         + RecordSizes(records, (lo + hi) \div 2 + 1, hi)

\* C13: format_frames stops at the first frame, in its iteration order, whose
\* file name contains "lumigo_tracer": the result is the records of the frames
\* visited before that frame, so neither that frame nor any frame after it is in
\* the result, whatever budget remains.
C13_StopsAtTracerFrame ==
    Framed =>
        /\ Len(ret.xs) <= Len(args.frames_infos)
        /\ \A i \in 1..Len(ret.xs) :
               /\ RecordOf(ret.xs[i], Visited(i))
               /\ ~AgentFile(Visited(i).filename)

\* a tracer frame lies between two frames of the user's code, the budget is far
\* from spent, and only the frame visited before the tracer frame is returned
C13_Witness ==
    /\ Framed
    /\ Len(args.frames_infos) = 3
    /\ ~AgentFile(Visited(1).filename)
    /\ AgentFile(Visited(2).filename)
    /\ ~AgentFile(Visited(3).filename)
    /\ Len(ret.xs) = 1
    /\ RecordSizes(ret.xs, 1, 1) < MAX_VARS_SIZE

\* C14: the sum of the serialized sizes of the frame records returned by
\* format_frames is at most MAX_VARS_SIZE, for every call stack.
C14_WithinBudget == Framed => RecordSizes(ret.xs, 1, Len(ret.xs)) <= MAX_VARS_SIZE

-----------------------------------------------------------------------------
(* report_json(region, msgs)                                                *)
(* The edge and the network are an input of the call: what the edge answers *)
(* and after how long.  The exceptions are classes derived from Exception,  *)
(* as every error of the tracer's code and of urllib is.                    *)

SECONDS_TO_TIMEOUT == 5000   \* 0.5 s, in ticks of 0.0001 s

\* line 17: EDGE_HOST.format(region=region); None is formatted as "None"
EDGE_HOST(region) ==
    "https://" \o py_str(region) \o ".lumigo-tracer-edge.golumigo.com/api/spans"
\* line 186
report_host(conf, region) == IF conf.host # "" THEN conf.host ELSE EDGE_HOST(region)

\* line 190
prune_trace(e) == ~env_true(e, "LUMIGO_PRUNE_TRACE_OFF")

\* line 195: float(os.environ.get("LUMIGO_EDGE_TIMEOUT", SECONDS_TO_TIMEOUT))
edge_timeout(e) ==
    IF InEnv(e, "LUMIGO_EDGE_TIMEOUT") THEN float_of(kv_get(e, "LUMIGO_EDGE_TIMEOUT", ""))
    ELSE PyFloat(SECONDS_TO_TIMEOUT)

\* line 194: urllib.request.Request(host, ...) takes a url that starts with a
\* scheme, "<characters other than / and :>:", and raises ValueError otherwise
has_scheme(host) ==
    \E i \in 2..Len(host) :
        /\ SubSeq(host, i, i) = ":"
        /\ \A k \in 1..(i - 1) : SubSeq(host, k, k) \notin {"/", ":"}

\* lines 193-196: urlopen; an unreachable edge is a URLError, an answer that is
\* not in by the timeout a socket timeout, an error status an HTTPError
urlopen(net, timeout) ==
    IF net.answer = "unreachable" THEN Raise("URLError")
    ELSE IF net.latency >= timeout.ticks THEN Raise("timeout")
    ELSE IF net.answer = "error status" THEN Raise("HTTPError")
    ELSE [t |-> "response", code |-> 200, elapsed |-> net.latency]

\* lines 190-196 in the order of evaluation: the body, the request, the
\* timeout, the call; the first exception ends the try block
posted(built, host, timeout, net) ==
    IF IsRaise(built) THEN built
    ELSE IF ~has_scheme(host) THEN Raise("ValueError")
    ELSE IF IsRaise(timeout) THEN timeout
    ELSE urlopen(net, timeout)

\* except URLError: HTTPError derives from URLError
is_url_error(exc) == exc.e \in {"URLError", "HTTPError"}

\* lines 197-203: int((time.time() - start_time) * 1000), or the handlers
report_duration(response) == PyInt(response.elapsed \div 10)

\* variant of report_ended with the handler of URLError alone
report_ended_url_errors(r, host) ==
    IF IsRaise(r) /\ is_url_error(r)
    THEN [ret |-> PyInt(0), logged |-> <<"exception: Timeout when reporting to " \o host>>]
    ELSE IF IsRaise(r) THEN [ret |-> r, logged |-> <<>>]
    ELSE [ret |-> report_duration(r), logged |-> <<"info: successful reporting, code: 200">>]

report_ended(r, host) ==
    IF IsRaise(r) /\ is_url_error(r)
    THEN [ret |-> PyInt(0), logged |-> <<"exception: Timeout when reporting to " \o host>>]
    ELSE IF IsRaise(r)
    THEN [ret |-> PyInt(0), logged |-> <<"exception: could not report json to " \o host>>]
    ELSE [ret |-> report_duration(r), logged |-> <<"info: successful reporting, code: 200">>]

\* lines 185-203
report_tried(conf, m, e, net, host) ==
    IF truthy(conf.should_report)
    THEN report_ended(posted(_create_request_body(m, prune_trace(e), MAX_SIZE_FOR_REQUEST,
                                                  TOO_BIG_SPANS_THRESHOLD, e).ret,
                             host, edge_timeout(e), net), host)
    ELSE [ret |-> PyInt(0), logged |-> <<>>]
report_logged(r) == [r EXCEPT !.logged = <<"info: reporting the messages">> \o @]
report_json(region, m, conf, e, net) ==
    report_logged(report_tried(conf, m, e, net, report_host(conf, region)))

Regions == {PyNone, PyStr("us-west-2")}
Hosts == {"", "https://edge.example/api/spans", "edge.example/api/spans"}
\* what the edge answers and after how many ticks
Nets ==
    {[answer |-> a, latency |-> t] :
        a \in {"ok", "error status", "unreachable"}, t \in {7, 1234, 5000, 19999, 30000}}
ReportEnvs ==
    {m \o p \o t :
        m \in {NoOverride, << <<LUMIGO_SECRET_MASKING_REGEX, "[\".*b.*\"">> >>},
        p \in {<<>>, << <<"LUMIGO_PRUNE_TRACE_OFF", "TRUE">> >>},
        t \in {<<>>, << <<"LUMIGO_EDGE_TIMEOUT", "2">> >>, << <<"LUMIGO_EDGE_TIMEOUT", "soon">> >>}}
ReportMsgs == {<<>>, <<FunctionSpan>>, <<HttpAuth, FunctionSpan>>}

InitReport ==
    /\ pc = "report"
    /\ env \in ReportEnvs
    /\ msgs \in ReportMsgs
    /\ Configuration \in {[DefaultConfiguration EXCEPT !.should_report = PyBool(r), !.host = h] :
                             r \in BOOLEAN, h \in Hosts}
    /\ args \in {[f |-> "report_json", region |-> region, net |-> net] :
                    region \in Regions, net \in Nets}
    /\ ret = NotCalled /\ log = <<>>
    /\ value = PyNone /\ regexes = <<>> /\ out = NotCalled /\ out2 = NotCalled
    /\ prune_size_flag = FALSE /\ max_size = 0
    /\ too_big_spans_threshold = 0 /\ body = NoBody
    /\ container = NoContainer /\ heap = <<>>

Reported(r) == ret' = r.ret /\ log' = log \o r.logged
ReportJson ==
    /\ pc = "report"
    /\ Reported(report_json(args.region, msgs, Configuration, env, args.net))
    /\ pc' = "reported"
    /\ UNCHANGED <<env, value, regexes, out, out2, msgs, prune_size_flag, max_size, heap,
                   too_big_spans_threshold, body, container, Configuration, args>>

NextReport == ReportJson
SpecReport == InitReport /\ [][NextReport]_vars

\* report_json is over
ReportOver == pc = "reported"
Disabled == ~Configuration.should_report.b
\* the edge did not take the POST: it is unreachable or answers an error status
NetworkError == args.net.answer # "ok"
\* the seconds report_json allows the POST, 0.5 unless LUMIGO_EDGE_TIMEOUT gives
\* a number; the answer is not in by then
TimeAllowed ==
    IF \E i \in 1..Len(env) : env[i] = <<"LUMIGO_EDGE_TIMEOUT", "2">> THEN 20000 ELSE 5000
TimedOut == args.net.latency >= TimeAllowed
\* the body cannot be built: the masking override of the environment is malformed
BodyFails == \E i \in 1..Len(env) : env[i][1] = LUMIGO_SECRET_MASKING_REGEX
\* the answer of a successful POST came in after this many milliseconds
ElapsedMs == args.net.latency \div 10

\* C15: report_json never raises and returns 0 whenever nothing was delivered:
\* with reporting disabled, on a network error, on a timeout and when the body
\* cannot be built it returns 0; a return value other than 0 is the elapsed
\* time in milliseconds of a POST that the edge answered in time.
C15_ZeroUnlessDelivered ==
    ReportOver =>
        /\ ret.t = "int"
        /\ (Disabled \/ NetworkError \/ TimedOut \/ BodyFails) => ret = PyInt(0)
        /\ ret # PyInt(0) =>
               /\ ret = PyInt(ElapsedMs)
               /\ ~Disabled /\ ~NetworkError /\ ~TimedOut /\ ~BodyFails

\* the body cannot be built, and the call returns 0 and logs the failure
C15_Witness ==
    /\ ReportOver
    /\ BodyFails /\ ~Disabled /\ ~NetworkError /\ ~TimedOut
    /\ ret = PyInt(0)
    /\ Len(log) = 2

-----------------------------------------------------------------------------
(* with lumigo_safe_execute(part_name): <block>                             *)
(* The block is a list of steps; a step passes ("ok") or raises the class   *)
(* it names.  The classes are derived from Exception, as in report_json.    *)

ExceptionClasses ==
    {"Exception", "ValueError", "TypeError", "KeyError", "IndexError", "JSONDecodeError",
     "re.error", "URLError", "HTTPError", "timeout", "ZeroDivisionError"}

\* line 231: except Exception as e
is_exception(exc) == exc.e \in ExceptionClasses

\* variant of safe_execute_raised whose handler takes ValueError alone
safe_execute_raised_value_error(part_name, exc) ==
    IF exc.e = "ValueError"
    THEN [pc |-> "after", ret |-> PyNone,
          logged |-> <<"exception: An exception occurred in lumigo's code " \o part_name>>]
    ELSE [pc |-> "raised", ret |-> exc, logged |-> <<>>]

\* lines 231-232: the block raised exc
safe_execute_raised(part_name, exc) ==
    IF is_exception(exc)
    THEN [pc |-> "after", ret |-> PyNone,
          logged |-> <<"exception: An exception occurred in lumigo's code " \o part_name>>]
    ELSE [pc |-> "raised", ret |-> exc, logged |-> <<>>]

MaxBlockSteps == 2   \* steps of a block
PartNames == {"", "add request event", "parse_event"}
StepOutcomes == {"ok", "Exception", "ValueError", "KeyError", "URLError", "timeout"}
Blocks == UNION {[1..n -> StepOutcomes] : n \in 0..MaxBlockSteps}

InitSafe ==
    /\ pc = "enter"
    /\ args \in {[f |-> "lumigo_safe_execute", part_name |-> p, block |-> b, done |-> 0] :
                    p \in PartNames, b \in Blocks}
    /\ env = NoOverride /\ msgs = <<>>
    /\ Configuration = DefaultConfiguration /\ ret = NotCalled /\ log = <<>>
    /\ value = PyNone /\ regexes = <<>> /\ out = NotCalled /\ out2 = NotCalled
    /\ prune_size_flag = FALSE /\ max_size = 0
    /\ too_big_spans_threshold = 0 /\ body = NoBody
    /\ container = NoContainer /\ heap = <<>>

safe_unchanged ==
    UNCHANGED <<env, value, regexes, out, out2, msgs, prune_size_flag, max_size, heap,
                too_big_spans_threshold, body, container, Configuration>>

\* line 229-230: try: yield, the block starts
SafeEnter ==
    /\ pc = "enter"
    /\ pc' = "block"
    /\ UNCHANGED <<args, ret, log>> /\ safe_unchanged

\* a step of the block passes
BlockStep ==
    /\ pc = "block"
    /\ args.done < Len(args.block)
    /\ args.block[args.done + 1] = "ok"
    /\ args' = [args EXCEPT !.done = @ + 1]
    /\ UNCHANGED <<pc, ret, log>> /\ safe_unchanged

\* a step of the block raises, and the handler of lines 231-232 runs
SafeExited(r) == pc' = r.pc /\ ret' = r.ret /\ log' = log \o r.logged
BlockRaise ==
    /\ pc = "block"
    /\ args.done < Len(args.block)
    /\ args.block[args.done + 1] # "ok"
    /\ SafeExited(safe_execute_raised(args.part_name, Raise(args.block[args.done + 1])))
    /\ UNCHANGED args /\ safe_unchanged

\* the block ends without an exception
BlockEnd ==
    /\ pc = "block"
    /\ args.done = Len(args.block)
    /\ pc' = "after"
    /\ ret' = PyNone
    /\ UNCHANGED <<args, log>> /\ safe_unchanged

\* the statement after the with block
AfterBlock ==
    /\ pc = "after"
    /\ pc' = "continued"
    /\ UNCHANGED <<args, ret, log>> /\ safe_unchanged

NextSafe == SafeEnter \/ BlockStep \/ BlockRaise \/ BlockEnd \/ AfterBlock
SpecSafe == InitSafe /\ [][NextSafe]_vars

\* the block was left by an exception: a step of it did not pass
LeftByException ==
    /\ pc \notin {"enter", "block"}
    /\ args.done < Len(args.block)
PartLogged == <<"exception: An exception occurred in lumigo's code " \o args.part_name>>

\* C16: an exception raised inside a lumigo_safe_execute(part_name) block is
\* caught, logged with the part name and discarded: the steps of the block
\* after the raising one do not run, control continues after the block and the
\* exception does not reach the calling code.
C16_ExceptionDiscarded ==
    /\ pc # "raised"
    /\ ret.t # "raise"
    /\ LeftByException => log = PartLogged /\ pc \in {"after", "continued"}
    /\ (pc \in {"after", "continued"} /\ ~LeftByException) => log = <<>>

\* the second step of the block of "add request event" raised, and the code
\* after the block runs
C16_Witness ==
    /\ pc = "continued"
    /\ LeftByException
    /\ args.done = 1
    /\ args.part_name = "add request event"
    /\ log = PartLogged

-----------------------------------------------------------------------------
(* The life cycle of an invocation under the lumigo_tracer decorator.       *)
(* The decorator and the invocation's context are described by the design   *)
(* document and the tests; their operations are modelled from there, around *)
(* omit_keys, prepare_large_data, format_frames, get_timeout_buffer and     *)
(* lumigo_safe_execute of utils.py.  The configuration is the default one.  *)
(*                                                                          *)
(* container.state is NEW, STARTED or ENDED; container.guard is the         *)
(* deadline guard: idle, armed, cancelled, firing (the callback has         *)
(* started), flushing (it has taken the flush) or done.                     *)

MAX_ENTRY_SIZE == 2048

\* reset(): no spans, no pending guard, a fresh function span, started
reset(request_id) ==
    [t |-> "container", state |-> "NEW",
     function_span |-> PyDict(<< StrPair("id", PyStr(request_id \o "_started")),
                                 StrPair("type", PyStr("function")) >>),
     http_spans |-> <<>>, tags |-> <<>>,
     reports |-> <<>>, guard |-> "idle", flushed |-> FALSE]

\* maxFinishTime = now + remaining_time - buffer
max_finish_time(now, remaining_time, conf) ==
    PyFloat(now + Ticks(remaining_time) - Ticks(get_timeout_buffer(remaining_time, conf)))

span_set(span, k, v) == PyDict(kv_set(span.kv, PyStr(k), v))
span_without(span, k) == PyDict(SelectSeq(span.kv, LAMBDA item : item[1] # PyStr(k)))

\* a report call: who made it and the spans it was given
reported(c, by, spans) == [c EXCEPT !.reports = Append(@, [by |-> by, msgs |-> spans])]

\* start_function_span(event, remaining_time): the redacted event, the start
\* time and maxFinishTime are recorded, the start report is made and the guard
\* is armed for the deadline; an exception of the redaction leaves the operation
span_opened(span, redacted, now, remaining_time, conf) ==
    span_set(span_set(span_set(span, "started", PyInt(now)),
                      "event", PyStr(prepare_large_data(redacted, MAX_ENTRY_SIZE))),
             "maxFinishTime", max_finish_time(now, remaining_time, conf))
span_reported(c, span, conf) ==
    [reported(c, "start", <<span>>)
        EXCEPT !.function_span = span, !.state = "STARTED",
               !.guard = IF conf.timeout_timer THEN "armed" ELSE "idle"]
span_started(c, redacted, now, remaining_time, conf) ==
    IF IsRaise(redacted) THEN redacted
    ELSE span_reported(c, span_opened(c.function_span, redacted, now, remaining_time, conf), conf)
start_function_span(c, event, now, remaining_time, conf, e) ==
    span_started(c, omit_keys(event, <<>>, e), now, remaining_time, conf)

\* the safe-execute boundary around an operation on the context: r is the
\* context the operation leaves, or the exception that ended it
guarded(c, r, part_name) ==
    IF IsRaise(r) THEN [c |-> c, logged |-> safe_execute_raised(part_name, r).logged]
    ELSE [c |-> r, logged |-> <<>>]

\* the decorator applied to a function that is wrapped already: the outermost
\* wrapper alone traces, an inner one calls the function
wrapper_traces(level) == level = 1

\* the error of the function span: the type of the exception, its message and
\* the frames of its call stack
error_recorded(c, exc, frames) ==
    IF IsRaise(frames) THEN frames
    ELSE [c EXCEPT !.function_span =
              span_set(@, "error", PyDict(<< StrPair("type", PyStr(exc.e)),
                                             StrPair("message", PyStr("Oh no")),
                                             StrPair("frames", frames) >>))]
add_exception_event(c, exc, frames_infos, e) ==
    error_recorded(c, exc, format_frames(frames_infos, e))

\* end_function_span(return_value | error), its first part: the span is marked
\* ended, maxFinishTime is cleared and the redacted return value is recorded
suffix_dropped(id) == PyStr(SubSeq(id.s, 1, Len(id.s) - Len("_started")))
span_ended(span, now) ==
    span_set(span_without(span_set(span, "id", suffix_dropped(kv_get(span.kv, PyStr("id"), PyStr("")))),
                          "maxFinishTime"),
             "ended", PyInt(now))
span_returned(c, redacted, now) ==
    IF IsRaise(redacted) THEN redacted
    ELSE [c EXCEPT !.function_span =
              span_set(span_ended(@, now), "returnValue",
                       PyStr(prepare_large_data(redacted, MAX_ENTRY_SIZE)))]
end_function_span(c, outcome, now, e) ==
    IF IsRaise(outcome) THEN [c EXCEPT !.function_span = span_ended(@, now)]
    ELSE span_returned(c, omit_keys(outcome, <<>>, e), now)

\* the spans of a report, the function span last
all_spans(c) == c.http_spans \o <<c.function_span>>

\* the final flush of an inner wrapper that traces
span_flushed(r) == IF IsRaise(r) THEN r ELSE reported(r, "end", all_spans(r))

\* cancelling the guard: a callback that has started is not stopped
guard_cancelled(guard) == IF guard = "armed" THEN "cancelled" ELSE guard

\* variant of flush_won without the flag
flush_won_unguarded(flushed) == TRUE

\* the single-flush guard: the first to take the flag performs the report
flush_won(flushed) == ~flushed

\* the kill switch of the decorator: the function is called untraced
kill_switch(e) == Lower(kv_get(e, "LUMIGO_SWITCH_OFF", "")) = "true"

\* variant of create_span that hands out a span although its creation raised
create_span_anyway(a) == reset(a.request_id)

\* the creation of the invocation's context at the entry of the wrapper, or
\* the exception that a.create_span makes it raise
create_span(a) == IF IsRaise(a.create_span) THEN a.create_span ELSE reset(a.request_id)

\* a call on a context whose function span has ended is a no-op that is logged
ignored(c, call) == [c |-> c, logged |-> <<"ignored after the end of the invocation: " \o call>>]
recorded(c) == [c |-> c, logged |-> <<>>]

\* variant of record_http_capture that does not look at the state
record_http_capture_always(c, event) ==
    IF c.function_span = PyNone THEN recorded(c)
    ELSE recorded([c EXCEPT !.http_spans = Append(@, event)])

\* record_http_capture(event): a new HttpSpan is opened for the request
record_http_capture(c, event) ==
    IF c.function_span = PyNone THEN recorded(c)
    ELSE IF c.state = "ENDED" THEN ignored(c, "record_http_capture")
    ELSE recorded([c EXCEPT !.http_spans = Append(@, event)])

\* add_execution_tag(key, value): the tag is appended to the tag list
add_execution_tag(c, key, v) ==
    IF c.function_span = PyNone THEN recorded(c)
    ELSE IF c.state = "ENDED" THEN ignored(c, "add_execution_tag")
    ELSE recorded([c EXCEPT !.tags = Append(@, <<key, v>>)])

MaxWraps == 2   \* times the decorator is applied to the handler
MaxInvocations == 2   \* invocations of the handler in the process
MaxHttpSpans == 1     \* HTTP captures recorded in an invocation
MaxTags == 1          \* execution tags recorded in an invocation
MaxIgnored == 2       \* entries of the log up to which hooks and tag calls are made

Events == {PyDict(<<StrPair("a", PyStr("b"))>>), Secret}
\* what the handler does: the value it returns or the exception it raises
Outcomes == {PyStr("ret_value"), PyDict(<<StrPair("statusCode", PyInt(200))>>),
             Raise("ValueError"), Raise("KeyError")}
\* the frames of the user's code when the handler raises, the raising one last
UserStacks == {<<HandlerFrame>>, <<HandlerFrame, InnerFrame>>}
TracerEnvs == {NoOverride, << <<LUMIGO_SECRET_MASKING_REGEX, "[\".*b.*\", \"x-api\"]">> >>,
               << <<LUMIGO_SECRET_MASKING_REGEX, "[\".*b.*\"">> >>,
               << <<"LUMIGO_SWITCH_OFF", "true">> >>}
Invocations ==
    {[f |-> "lumigo_tracer", wraps |-> w, request_id |-> "1234", event |-> ev,
      remaining_time |-> PyInt(10), now |-> 170000, took |-> 30000,
      outcome |-> o, stack |-> st, create_span |-> PyNone, invocation |-> 1] :
        w \in 1..MaxWraps, ev \in Events, o \in Outcomes, st \in UserStacks}
    \cup {[f |-> "lumigo_tracer", wraps |-> 1, request_id |-> "1234", event |-> Secret,
           remaining_time |-> PyInt(10), now |-> 170000, took |-> 30000,
           outcome |-> o, stack |-> <<HandlerFrame>>,
           create_span |-> Raise("ZeroDivisionError"), invocation |-> 1] : o \in Outcomes}

\* inspect.trace() in the wrapper: the wrappers' frames, then the user's
trace(a) == Repeat(TracerFrame, a.wraps) \o a.stack

InitTracer ==
    /\ pc = "enter"
    /\ env \in TracerEnvs
    /\ args \in Invocations
    /\ container = NoContainer /\ heap = <<>>
    /\ Configuration = DefaultConfiguration /\ ret = NotCalled /\ log = <<>>
    /\ value = PyNone /\ regexes = <<>> /\ out = NotCalled /\ out2 = NotCalled
    /\ msgs = <<>> /\ prune_size_flag = FALSE /\ max_size = 0
    /\ too_big_spans_threshold = 0 /\ body = NoBody

tracer_unchanged ==
    UNCHANGED <<env, value, regexes, out, out2, msgs, prune_size_flag, max_size, heap,
                too_big_spans_threshold, body, Configuration, args>>
Guarded(r) == container' = r.c /\ log' = log \o r.logged

\* the outermost wrapper: reset() and start_function_span(event, remaining_time)
Start ==
    /\ pc = "enter"
    /\ ~kill_switch(env) /\ ~IsRaise(create_span(args))
    /\ Guarded(guarded(create_span(args),
                       start_function_span(create_span(args), args.event, args.now,
                                           args.remaining_time, Configuration, env),
                       "start"))
    /\ pc' = "started"
    /\ UNCHANGED ret /\ tracer_unchanged

\* the wrapper with the kill switch on, or whose span creation raised: the
\* exception is logged and the function is called untraced
StartUntraced ==
    /\ pc = "enter"
    /\ kill_switch(env) \/ IsRaise(create_span(args))
    /\ IF kill_switch(env) THEN UNCHANGED <<container, log>>
       ELSE Guarded(guarded(container, create_span(args), "wrapper"))
    /\ pc' = "untraced"
    /\ UNCHANGED ret /\ tracer_unchanged

\* the user's function runs untraced, and returns or raises
HandlerUntraced ==
    /\ pc = "untraced"
    /\ pc' = "exit"
    /\ UNCHANGED <<container, log, ret>> /\ tracer_unchanged

\* a hook reports an HTTP request of the process
RecordHttpCapture ==
    /\ pc # "enter"
    /\ Len(container.http_spans) < MaxHttpSpans
    /\ Len(log) < MaxIgnored
    /\ Guarded(record_http_capture(container, HttpOk))
    /\ UNCHANGED <<pc, ret>> /\ tracer_unchanged

\* the user's code, or a thread it left behind, adds an execution tag
AddExecutionTag ==
    /\ pc # "enter"
    /\ Len(container.tags) < MaxTags
    /\ Len(log) < MaxIgnored
    /\ Guarded(add_execution_tag(container, "k", "v"))
    /\ UNCHANGED <<pc, ret>> /\ tracer_unchanged

\* the process is invoked again
NextInvocation ==
    /\ pc = "done" /\ args.invocation < MaxInvocations
    /\ args' = [args EXCEPT !.invocation = @ + 1]
    /\ pc' = "enter"
    /\ UNCHANGED <<env, value, regexes, out, out2, msgs, prune_size_flag, max_size, heap,
                   too_big_spans_threshold, body, Configuration, ret, log, container>>

\* the wrappers inside the outermost one, when the decorator is applied again
InnerEnter ==
    /\ pc = "started" /\ args.wraps >= 2
    /\ IF wrapper_traces(2)
       THEN Guarded(guarded(reset(args.request_id),
                            start_function_span(reset(args.request_id), args.event, args.now,
                                                args.remaining_time, Configuration, env),
                            "start"))
       ELSE UNCHANGED <<container, log>>
    /\ pc' = "inner"
    /\ UNCHANGED ret /\ tracer_unchanged

\* the user's function runs, and returns or raises
Handler ==
    /\ \/ pc = "started" /\ args.wraps = 1
       \/ pc = "inner"
    /\ pc' = IF args.wraps >= 2 THEN "inner exit" ELSE "unwound"
    /\ UNCHANGED <<container, log, ret>> /\ tracer_unchanged

\* control leaves the inner wrapper; were it tracing, it would end and report
InnerExit ==
    /\ pc = "inner exit"
    /\ IF wrapper_traces(2)
       THEN Guarded(guarded(container,
                            span_flushed(end_function_span(container, args.outcome,
                                                           args.now + args.took, env)),
                            "end"))
       ELSE UNCHANGED <<container, log>>
    /\ pc' = "unwound"
    /\ UNCHANGED ret /\ tracer_unchanged

\* the wrapper's except clause: add_exception_event(exception, inspect.trace())
AddException ==
    /\ pc = "unwound" /\ IsRaise(args.outcome)
    /\ Guarded(guarded(container,
                       add_exception_event(container, args.outcome, trace(args), env),
                       "Customer's exception"))
    /\ pc' = "recorded"
    /\ UNCHANGED ret /\ tracer_unchanged

\* end_function_span: the span is marked ended; an exception leaves the operation
Ended(r) == Guarded(r) /\ pc' = IF r.logged = <<>> THEN "cancel" ELSE "exit"
EndSpan ==
    /\ \/ pc = "unwound" /\ ~IsRaise(args.outcome)
       \/ pc = "recorded"
    /\ Ended(guarded(container,
                     end_function_span(container, args.outcome, args.now + args.took, env),
                     "end"))
    /\ UNCHANGED ret /\ tracer_unchanged

\* end_function_span: the guard is cancelled
CancelGuard ==
    /\ pc = "cancel"
    /\ container' = [container EXCEPT !.guard = guard_cancelled(@)]
    /\ pc' = "flush"
    /\ UNCHANGED <<ret, log>> /\ tracer_unchanged

\* end_function_span: the flush flag is tested and set in one step
TakeFlush ==
    /\ pc = "flush"
    /\ container' = [container EXCEPT !.flushed = TRUE]
    /\ pc' = IF flush_won(container.flushed) THEN "report" ELSE "exit"
    /\ UNCHANGED <<ret, log>> /\ tracer_unchanged

\* end_function_span: the final flush
ReportEnd ==
    /\ pc = "report"
    /\ container' = [reported(container, "end", all_spans(container))
                        EXCEPT !.state = "ENDED"]
    /\ pc' = "exit"
    /\ UNCHANGED <<ret, log>> /\ tracer_unchanged

\* the wrapper returns the value of the function or raises its exception again
Exit ==
    /\ pc = "exit"
    /\ ret' = args.outcome
    /\ pc' = "done"
    /\ UNCHANGED <<container, log>> /\ tracer_unchanged

\* the timer's thread: the deadline is reached and the callback starts
GuardFires ==
    /\ container.guard = "armed"
    /\ container' = [container EXCEPT !.guard = "firing"]
    /\ UNCHANGED <<pc, ret, log>> /\ tracer_unchanged

\* the callback tests and sets the flush flag in one step
GuardTakesFlush ==
    /\ container.guard = "firing"
    /\ container' = [container EXCEPT !.flushed = TRUE,
                                      !.guard = IF flush_won(container.flushed)
                                                THEN "flushing" ELSE "done"]
    /\ UNCHANGED <<pc, ret, log>> /\ tracer_unchanged

\* the forced flush: the spans as they are
GuardReports ==
    /\ container.guard = "flushing"
    /\ container' = [reported(container, "forced", all_spans(container))
                        EXCEPT !.guard = "done"]
    /\ UNCHANGED <<pc, ret, log>> /\ tracer_unchanged

NextTracer ==
    \/ Start \/ InnerEnter \/ Handler \/ InnerExit \/ AddException \/ EndSpan
    \/ CancelGuard \/ TakeFlush \/ ReportEnd \/ Exit
    \/ StartUntraced \/ HandlerUntraced \/ RecordHttpCapture \/ AddExecutionTag
    \/ NextInvocation
    \/ GuardFires \/ GuardTakesFlush \/ GuardReports
SpecTracer == InitTracer /\ [][NextTracer]_vars

\* the invocation is over: the wrapper has returned or raised
InvocationOver == pc = "done"
\* the invocation is traced: the kill switch is off and the span was created
TracingOn == ~kill_switch(env) /\ ~IsRaise(args.create_span)
\* the deadline did not fire: the guard's callback never started
DeadlineNotFired == container.guard \in {"idle", "armed", "cancelled"}
ReportsMade == container.reports
EndsWith(s, suffix) ==
    Len(s) >= Len(suffix) /\ SubSeq(s, Len(s) - Len(suffix) + 1, Len(s)) = suffix
SpanId(span) == kv_get(span.kv, PyStr("id"), PyStr("")).s
HasField(span, k) == \E i \in 1..Len(span.kv) : span.kv[i][1] = PyStr(k)
\* the function span of the context and the fields of its error
FunctionSpanNow == container.function_span
ErrorNow == kv_get(FunctionSpanNow.kv, PyStr("error"), PyNone)
ErrorField(k) == kv_get(ErrorNow.kv, PyStr(k), PyNone)
\* the frame of the user's code that raised
RaisingFrame == args.stack[Len(args.stack)]
\* the reports after the start report: by the normal completion or by the guard
TerminalReports ==
    Cardinality({i \in 1..Len(ReportsMade) : ReportsMade[i].by \in {"end", "forced"}})

\* C18: an invocation that returns normally without the deadline firing makes
\* exactly two report calls: first the start report, of exactly one span whose
\* id ends with "_started" and that carries maxFinishTime, then the end report;
\* and so when the decorator is applied twice.
C18_TwoReports ==
    (InvocationOver /\ TracingOn /\ ~IsRaise(args.outcome) /\ DeadlineNotFired) =>
        /\ Len(ReportsMade) = 2
        /\ ReportsMade[1].by = "start"
        /\ Len(ReportsMade[1].msgs) = 1
        /\ EndsWith(SpanId(ReportsMade[1].msgs[1]), "_started")
        /\ HasField(ReportsMade[1].msgs[1], "maxFinishTime")
        /\ ReportsMade[2].by = "end"

\* C19: an invocation whose user function raises ends with a function span
\* that has error.type set to the type of the exception, error.frames holding
\* the raising frame and no tracer frame, no return value, no maxFinishTime and
\* an id that does not end with "_started"; the caller gets the exception.
C19_ErrorSpan ==
    (InvocationOver /\ TracingOn /\ IsRaise(args.outcome)) =>
        /\ ret = args.outcome
        /\ ~HasField(FunctionSpanNow, "returnValue")
        /\ ~HasField(FunctionSpanNow, "maxFinishTime")
        /\ ~EndsWith(SpanId(FunctionSpanNow), "_started")
        /\ ErrorNow.t = "dict"
        /\ ErrorField("type") = PyStr(args.outcome.e)
        /\ ErrorField("frames").t = "list"
        /\ \E i \in 1..Len(ErrorField("frames").xs) :
               RecordOf(ErrorField("frames").xs[i], RaisingFrame)
        /\ \A i \in 1..Len(ErrorField("frames").xs) :
               ~AgentFile(kv_get(ErrorField("frames").xs[i].kv, PyStr("fileName"), PyStr("")).s)

\* C20: under every interleaving of the end of the invocation with the guard's
\* callback, at most one of the normal completion and the forced flush makes
\* the terminal report of the invocation.
C20_SingleTerminalReport == TerminalReports <= 1

\* the callback started before the guard was cancelled, the normal completion
\* took the flush first and made the one terminal report
C20_Witness ==
    /\ InvocationOver
    /\ log = <<>>
    /\ container.guard = "done"
    /\ container.flushed
    /\ TerminalReports = 1
    /\ ReportsMade[Len(ReportsMade)].by = "end"

\* the step is a new reset(): the wrapper of the next invocation creates the
\* context afresh
ResetStep == pc = "enter" /\ pc' = "started"
\* the function span and the span lists are left as they are
SpansUntouched ==
    /\ container'.function_span = container.function_span
    /\ container'.http_spans = container.http_spans
    /\ container'.tags = container.tags
\* the calls made on the context after its end and turned down
IgnoredCalls ==
    {log[i] : i \in {j \in 1..Len(log) : StartsAt(log[j], 1, "ignored after the end")}}

C22_UntracedTransparent ==
    /\ InvocationOver => ret = args.outcome
    /\ ~TracingOn =>
           /\ container.function_span = PyNone
           /\ container.http_spans = <<>> /\ container.tags = <<>>
           /\ container.reports = <<>>

\* C22, its case: span creation raised in the wrapper, the exception was
\* logged, hooks were called while the function ran, and the caller got the
\* function's return value.
C22_Witness ==
    /\ InvocationOver /\ IsRaise(args.create_span) /\ ~kill_switch(env)
    /\ args.invocation = 2
    /\ ret = PyStr("ret_value")
    /\ container = NoContainer
    /\ Len(log) >= 1

====
